---- MODULE Spec2Model ----
(***************************************************************************)
(* Knowledge-graph explorer: the expansion sanitizer of                    *)
(* src/server/expand.ts and the GraphView expansion flow with its layout   *)
(* functions (src/components/GraphView.tsx).                               *)
(*                                                                         *)
(* Strings are TLA+ strings over a model alphabet: the character "J"       *)
(* stands for a character of the ranges U+3040-30FF / U+3400-9FFF, "E" for *)
(* any other character above U+007F, " " is the only white space, and      *)
(* every other character is ASCII.  Japanese literals of the source are    *)
(* written "J" followed by their romaji ("Jkanren" for the generic label). *)
(*                                                                         *)
(* JSON values are records [t, v]: t is the JavaScript type, v the string  *)
(* or the decimal digits of the number ("" otherwise).                     *)
(***************************************************************************)
EXTENDS Integers, Sequences, FiniteSets, TLC

(***************************************************************************)
(* JavaScript values                                                       *)
(***************************************************************************)
Undef == [t |-> "undefined", v |-> ""]
Null == [t |-> "null", v |-> ""]
Str(s) == [t |-> "string", v |-> s]
Num(s) == [t |-> "number", v |-> s]

\* String(x) of a JSON value.
JSString(x) ==
  CASE x.t = "undefined" -> "undefined"
    [] x.t = "null" -> "null"
    [] x.t = "object" -> "[object Object]"
    [] OTHER -> x.v

\* x == null  (true of null and undefined)
IsNullish(x) == x.t \in {"undefined", "null"}

\* a ?? b
Coalesce(a, b) == IF IsNullish(a) THEN b ELSE a

RECURSIVE TrimStart(_)
TrimStart(s) ==
  IF Len(s) > 0 /\ SubSeq(s, 1, 1) = " " THEN TrimStart(SubSeq(s, 2, Len(s))) ELSE s

RECURSIVE TrimEnd(_)
TrimEnd(s) ==
  IF Len(s) > 0 /\ SubSeq(s, Len(s), Len(s)) = " "
  THEN TrimEnd(SubSeq(s, 1, Len(s) - 1)) ELSE s

\* String.prototype.trim
Trim(s) == TrimEnd(TrimStart(s))

\* An array entry that is not an object (null, a number, a string): every
\* property read on it is undefined.
Scalar(t, v) ==
  [t |-> t, v |-> v, id |-> Undef, label |-> Undef, kind |-> Undef,
   depth |-> Undef, source |-> Undef, target |-> Undef]

NodeEntry(id, label, kind, depth) ==
  [t |-> "object", v |-> "", id |-> id, label |-> label, kind |-> kind,
   depth |-> depth, source |-> Undef, target |-> Undef]

EdgeEntry(id, source, target, label) ==
  [t |-> "object", v |-> "", id |-> id, label |-> label, kind |-> Undef,
   depth |-> Undef, source |-> source, target |-> target]

\* The value of a `nodes` / `edges` property: missing, null, a scalar, an
\* object, or an array (items).
Field(t, items) == [t |-> t, items |-> items]
Missing == Field("undefined", <<>>)
Arr(items) == Field("array", items)

\* A decoded payload: null, a scalar, an array or an object.  Only an object
\* has the two properties.
Raw(t, nodes, edges) == [t |-> t, nodes |-> nodes, edges |-> edges]
RawObj(nodes, edges) == Raw("object", nodes, edges)

(***************************************************************************)
(* src/server/expand.ts                                                    *)
(***************************************************************************)
NonAscii == {"J", "E"}

looksAsciiOnly(s) ==
  /\ Len(s) >= 1
  /\ \A i \in 1..Len(s) : SubSeq(s, i, i) \notin NonAscii

hasJapaneseChar(s) == \E i \in 1..Len(s) : SubSeq(s, i, i) = "J"

SeqToSet(q) == {q[i] : i \in 1..Len(q)}

inferDomainFromAllowedKinds(allowedKinds) ==
  LET set == SeqToSet(allowedKinds) IN
  IF "producer" \in set \/ "grape" \in set \/ "appellation" \in set THEN "wine"
  ELSE IF "brand" \in set \/ "note" \in set \/ "perfumer" \in set THEN "perfume"
  ELSE "unknown"

GenericLabel == "Jkanren"

edgeLabelJa(domain, targetKind) ==
  IF domain = "perfume" THEN
    CASE targetKind = "brand" -> "Jburando"
      [] targetKind = "perfume" -> "Jkousui"
      [] targetKind = "note" -> "Jnooto"
      [] targetKind = "accord" -> "Jakoodo"
      [] targetKind = "perfumer" -> "Jchoukoushi"
      [] targetKind = "style" -> "Jsutairu"
      [] targetKind = "category" -> "Jkategori"
      [] targetKind = "root" -> "Jkanren"
      [] OTHER -> "Jkanren"
  ELSE IF domain = "wine" THEN
    CASE targetKind = "producer" -> "Jseisansha"
      [] targetKind = "wine" -> "Jwain"
      [] targetKind = "region" -> "Jchiiki"
      [] targetKind = "appellation" -> "Jkoshou"
      [] targetKind = "grape" -> "Jhinshu"
      [] targetKind = "vintage" -> "Jvinteeji"
      [] targetKind = "style" -> "Jsutairu"
      [] targetKind = "root" -> "Jkanren"
      [] OTHER -> "Jkanren"
  ELSE "Jkanren"

shouldRequireJapaneseLabel(domain, kind) ==
  IF domain = "perfume" THEN kind \notin {"brand", "perfume", "perfumer"}
  ELSE IF domain = "wine"
       THEN kind \notin {"producer", "wine", "grape", "vintage", "appellation"}
  ELSE FALSE

\* The while loop of makeUniqueId, entered with the candidate id and counter i.
RECURSIVE makeUniqueIdLoop(_, _, _, _)
makeUniqueIdLoop(base, used, id, i) ==
  IF id \in used
  THEN makeUniqueIdLoop(base, used, base \o "__" \o ToString(i), i + 1)
  ELSE id

makeUniqueIdNoCheck(base, used) == base

makeUniqueIdFromTwo(base, used) == makeUniqueIdLoop(base, used, base, 2)

\* The id makeUniqueId returns; the caller adds it to `used`.
makeUniqueId(base, used) == makeUniqueIdLoop(base, used, base, 1)

\* The decimal value of a JSON number of the model (one digit).
DigitValue(s) ==
  CASE s = "0" -> 0 [] s = "1" -> 1 [] s = "2" -> 2 [] s = "3" -> 3 [] s = "4" -> 4
    [] s = "5" -> 5 [] s = "6" -> 6 [] s = "7" -> 7 [] s = "8" -> 8 [] OTHER -> 9

\* raw?.nodes and raw?.edges: undefined unless raw is an object that has it.
rawProperty(raw, name) ==
  IF raw.t = "object" THEN (IF name = "nodes" THEN raw.nodes ELSE raw.edges)
  ELSE Missing

\* (raw?.x ?? []).filter(...): a value that is neither null/undefined nor an
\* array has no filter method, and the call raises a TypeError.
arrayOrRaise(field) ==
  IF field.t \in {"undefined", "null"} THEN [raised |-> FALSE, items |-> <<>>]
  ELSE IF field.t = "array" THEN [raised |-> FALSE, items |-> field.items]
  ELSE [raised |-> TRUE, items |-> <<>>]

\* Each entry with its position in the payload array (src: a history field the
\* code does not have, kept to relate an output element to its payload entry).
withSrc(items) == [i \in 1..Len(items) |-> [e |-> items[i], src |-> i]]

\* n && typeof n.id === "string"
hasStringId(n) == n.t = "object" /\ n.id.t = "string"

\* allowed.has(String(n.kind)) ? String(n.kind) : (allowedKinds[last] ?? "node")
coerceKind(kind, allowedKinds) ==
  IF JSString(kind) \in SeqToSet(allowedKinds) THEN JSString(kind)
  ELSE IF Len(allowedKinds) > 0 THEN allowedKinds[Len(allowedKinds)] ELSE "node"

\* A depth taken from the payload entry when it carries a number.
nodeDepthTrusted(n, focusDepth) ==
  IF n.depth.t = "number" THEN DigitValue(n.depth.v) ELSE focusDepth + 1

\* depth: focusDepth + 1
nodeDepth(n, focusDepth) == focusDepth + 1

\* The first .map of the node pipeline.
normalizeNode(n, src, focusDepth, allowedKinds) ==
  [id |-> Trim(JSString(n.id)),
   label |-> Trim(JSString(Coalesce(n.label, n.id))),
   kind |-> coerceKind(n.kind, allowedKinds),
   depth |-> nodeDepth(n, focusDepth),
   src |-> src]

\* .map((n) => ({...n, id: makeUniqueId(n.id, usedNodeIds)})), left to right,
\* each resolved id added to the pool before the next candidate.
RECURSIVE resolveNodeIds(_, _)
resolveNodeIds(nodes, used) ==
  IF nodes = <<>> THEN <<>>
  ELSE LET n == Head(nodes)
           id == makeUniqueId(n.id, used)
       IN <<[n EXCEPT !.id = id]>> \o resolveNodeIds(Tail(nodes), used \cup {id})

\* The language filter of one node.
passesLanguageFilter(domainGuess, n) ==
  IF ~shouldRequireJapaneseLabel(domainGuess, n.kind) THEN TRUE
  ELSE IF hasJapaneseChar(n.label) THEN TRUE
  ELSE IF looksAsciiOnly(n.label) THEN FALSE
  ELSE TRUE

MaxChildren == 3

capNodesNone(nodes) == nodes

\* if (nodes.length > 3) nodes = nodes.slice(0, 3)
capNodes(nodes) ==
  IF Len(nodes) > MaxChildren THEN SubSeq(nodes, 1, MaxChildren) ELSE nodes

\* `nodes` after the id resolution of line 101: the candidates, each with its
\* resolved id.
resolvedCandidates(focusDepth, existingElementIds, allowedKinds, items) ==
  LET kept == SelectSeq(withSrc(items), LAMBDA x : hasStringId(x.e))
      mapped == [i \in 1..Len(kept) |->
                   normalizeNode(kept[i].e, kept[i].src, focusDepth, allowedKinds)]
      nonEmpty == SelectSeq(mapped, LAMBDA n : Len(n.id) > 0)
  IN resolveNodeIds(nonEmpty, SeqToSet(existingElementIds))

\* The `nodes` of sanitizeExpandResult, from the payload array.
sanitizeNodes(focusDepth, existingElementIds, allowedKinds, items) ==
  LET domainGuess == inferDomainFromAllowedKinds(allowedKinds)
      resolved == resolvedCandidates(focusDepth, existingElementIds, allowedKinds, items)
      passed == SelectSeq(resolved, LAMBDA n : passesLanguageFilter(domainGuess, n))
  IN capNodes(passed)

nodeIds(nodes) == {nodes[i].id : i \in 1..Len(nodes)}

edgeKeptAnyTarget(e, focusId, newNodeIds) ==
  /\ e.t = "object"
  /\ ~IsNullish(e.source)
  /\ ~IsNullish(e.target)
  /\ JSString(e.source) = focusId

edgeKeptAnySource(e, focusId, newNodeIds) ==
  /\ e.t = "object"
  /\ ~IsNullish(e.source)
  /\ ~IsNullish(e.target)
  /\ JSString(e.target) \in newNodeIds

\* The three edge filters: e && e.source != null && e.target != null,
\* String(e.source) === focusId, newNodeIds.has(String(e.target)).
edgeKept(e, focusId, newNodeIds) ==
  /\ e.t = "object"
  /\ ~IsNullish(e.source)
  /\ ~IsNullish(e.target)
  /\ JSString(e.source) = focusId
  /\ JSString(e.target) \in newNodeIds

\* nodes.find((n) => n.id === target)?.kind ?? ""
kindOfTarget(nodes, target) ==
  IF \E i \in 1..Len(nodes) : nodes[i].id = target
  THEN nodes[CHOOSE i \in 1..Len(nodes) :
               nodes[i].id = target /\ \A j \in 1..(i - 1) : nodes[j].id # target].kind
  ELSE ""

modelEdgeLabelKept(e, nodes, domainGuess) ==
  JSString(Coalesce(e.label, Str(GenericLabel)))

\* The label of a model-derived edge.
modelEdgeLabel(e, nodes, domainGuess) ==
  LET label == JSString(Coalesce(e.label, Str(GenericLabel))) IN
  IF ~hasJapaneseChar(label) /\ looksAsciiOnly(label)
  THEN edgeLabelJa(domainGuess, kindOfTarget(nodes, JSString(e.target)))
  ELSE label

\* The .map of edgesFromModel over the filtered payload edges, i counting from 0.
RECURSIVE mapModelEdges(_, _, _, _, _, _)
mapModelEdges(kept, i, focusId, nodes, domainGuess, used) ==
  IF i > Len(kept) THEN [edges |-> <<>>, used |-> used]
  ELSE LET e == kept[i].e
           target == JSString(e.target)
           base == JSString(Coalesce(e.id,
                     Str(focusId \o "--" \o target \o "--" \o ToString(i - 1))))
           id == makeUniqueId(base, used)
           rest == mapModelEdges(kept, i + 1, focusId, nodes, domainGuess,
                                 used \cup {id})
       IN [edges |-> <<[id |-> id, source |-> focusId, target |-> target,
                        label |-> modelEdgeLabel(e, nodes, domainGuess),
                        origin |-> "model", src |-> kept[i].src]>> \o rest.edges,
           used |-> rest.used]

supplementEdgesNone(nodes, edgeTargets, focusId, domainGuess, used) ==
  [edges |-> <<>>, used |-> used]

RECURSIVE supplementEdgesGeneric(_, _, _, _, _)
supplementEdgesGeneric(nodes, edgeTargets, focusId, domainGuess, used) ==
  IF nodes = <<>> THEN [edges |-> <<>>, used |-> used]
  ELSE LET n == Head(nodes) IN
       IF n.id \in edgeTargets
       THEN supplementEdgesGeneric(Tail(nodes), edgeTargets, focusId, domainGuess, used)
       ELSE LET id == makeUniqueId(focusId \o "--" \o n.id \o "--auto", used)
                rest == supplementEdgesGeneric(Tail(nodes), edgeTargets, focusId,
                                               domainGuess, used \cup {id})
            IN [edges |-> <<[id |-> id, source |-> focusId, target |-> n.id,
                             label |-> GenericLabel,
                             origin |-> "auto", src |-> 0]>> \o rest.edges,
                used |-> rest.used]

supplementEdgesWhenSome(nodes, edgeTargets, focusId, domainGuess, used) ==
  IF edgeTargets = {} THEN [edges |-> <<>>, used |-> used]
  ELSE supplementEdgesGeneric(nodes, edgeTargets, focusId, domainGuess, used)

\* The loop that adds a focus -> node edge for every node no model edge targets.
RECURSIVE supplementEdges(_, _, _, _, _)
supplementEdges(nodes, edgeTargets, focusId, domainGuess, used) ==
  IF nodes = <<>> THEN [edges |-> <<>>, used |-> used]
  ELSE LET n == Head(nodes) IN
       IF n.id \in edgeTargets
       THEN supplementEdges(Tail(nodes), edgeTargets, focusId, domainGuess, used)
       ELSE LET id == makeUniqueId(focusId \o "--" \o n.id \o "--auto", used)
                rest == supplementEdges(Tail(nodes), edgeTargets, focusId,
                                        domainGuess, used \cup {id})
            IN [edges |-> <<[id |-> id, source |-> focusId, target |-> n.id,
                             label |-> edgeLabelJa(domainGuess, n.kind),
                             origin |-> "auto", src |-> 0]>> \o rest.edges,
                used |-> rest.used]

\* The final guard: one forced edge when there are nodes and no edge.
forcedEdges(nodes, edges, focusId, domainGuess, used) ==
  IF Len(nodes) > 0 /\ Len(edges) = 0
  THEN <<[id |-> makeUniqueId(focusId \o "--" \o nodes[1].id \o "--forced", used),
          source |-> focusId, target |-> nodes[1].id,
          label |-> edgeLabelJa(domainGuess, nodes[1].kind),
          origin |-> "forced", src |-> 0]>>
  ELSE <<>>

\* The `edges` of sanitizeExpandResult, from the payload array and the nodes.
sanitizeEdges(focusId, existingElementIds, allowedKinds, nodes, items) ==
  LET domainGuess == inferDomainFromAllowedKinds(allowedKinds)
      newNodeIds == nodeIds(nodes)
      kept == SelectSeq(withSrc(items), LAMBDA x : edgeKept(x.e, focusId, newNodeIds))
      model == mapModelEdges(kept, 1, focusId, nodes, domainGuess,
                             SeqToSet(existingElementIds))
      edgeTargets == {model.edges[i].target : i \in 1..Len(model.edges)}
      supplemented == supplementEdges(nodes, edgeTargets, focusId, domainGuess,
                                      model.used)
      edges == model.edges \o supplemented.edges
  IN edges \o forcedEdges(nodes, edges, focusId, domainGuess, supplemented.used)

\* The outcome of a call: raised (a TypeError left the function) or the
\* returned {nodes, edges}.
sanitizeExpandResult(focusId, focusDepth, existingElementIds, allowedKinds, raw) ==
  LET rn == arrayOrRaise(rawProperty(raw, "nodes"))
      re == arrayOrRaise(rawProperty(raw, "edges"))
  IN IF rn.raised THEN [raised |-> TRUE, nodes |-> <<>>, edges |-> <<>>]
     ELSE LET nodes == sanitizeNodes(focusDepth, existingElementIds, allowedKinds,
                                     rn.items)
          IN IF re.raised THEN [raised |-> TRUE, nodes |-> <<>>, edges |-> <<>>]
             ELSE [raised |-> FALSE,
                   nodes |-> nodes,
                   edges |-> sanitizeEdges(focusId, existingElementIds, allowedKinds,
                                           nodes, re.items)]

(***************************************************************************)
(* src/components/GraphView.tsx: elements, the Cytoscape graph, layout     *)
(*                                                                         *)
(* A graph node is [id, kind, depth, expanded, pendingKey] and an edge     *)
(* [id, source, target, pendingKey]; pendingKey is "" for an element that   *)
(* is no placeholder.  The graph keeps its nodes and its edges in the      *)
(* order they were added.  Positions are integer pixels; a direction is a  *)
(* vector of length 1000.                                                  *)
(***************************************************************************)
\* a / b rounded to the nearest integer (b > 0).
RoundDiv(a, b) == (2 * a + b) \div (2 * b)

Abs(a) == IF a < 0 THEN -a ELSE a

RECURSIVE ISqrtBetween(_, _, _)
ISqrtBetween(n, lo, hi) ==
  IF lo >= hi THEN lo
  ELSE LET mid == (lo + hi + 1) \div 2
       IN IF mid * mid <= n THEN ISqrtBetween(n, mid, hi)
          ELSE ISqrtBetween(n, lo, mid - 1)

\* The integer square root.
ISqrt(n) == ISqrtBetween(n, 0, 46340)

\* Math.hypot(x, y) in tenths of a pixel.
Hypot10(x, y) == ISqrt(100 * (x * x + y * y))

\* 1000 * sin(2 pi p / q) for 0 <= 2p <= q (Bhaskara's approximation).
SinHalfTurn(p, q) ==
  LET d == 5 * q * q - 8 * p * (q - 2 * p)
  IN RoundDiv(32000 * p * (q - 2 * p), d)

\* 1000 * Math.sin(2 pi p / q)
Sin1000(p, q) ==
  LET r == p % q
  IN IF 2 * r <= q THEN SinHalfTurn(r, q) ELSE -SinHalfTurn(2 * r - q, 2 * q)

\* 1000 * Math.cos(2 pi p / q)
Cos1000(p, q) == Sin1000(4 * p + q, 4 * q)

Origin == [x |-> 0, y |-> 0]

\* The position of the first element of q for which id is the id.
IndexOfId(q, id) == CHOOSE i \in 1..Len(q) : q[i].id = id /\ \A j \in 1..(i - 1) : q[j].id # id

HasId(q, id) == \E i \in 1..Len(q) : q[i].id = id

idSet(q) == {q[i].id : i \in 1..Len(q)}

RECURSIVE mergeLoop(_, _, _)
mergeLoop(merged, seen, incoming) ==
  IF incoming = <<>> THEN merged
  ELSE LET el == Head(incoming) IN
       IF el.id = "" \/ el.id \in seen THEN mergeLoop(merged, seen, Tail(incoming))
       ELSE mergeLoop(Append(merged, el), seen \cup {el.id}, Tail(incoming))

\* mergeUniqueElements(prev, incoming): the incoming elements whose id is new,
\* appended in order.
mergeUniqueElements(prev, incoming) ==
  mergeLoop(prev, idSet(prev), incoming)

\* cy.add(incoming): Cytoscape adds the elements in order, the nodes at the
\* origin, and skips an element whose id is already in the graph and an edge
\* with an end that is no node of the graph.
RECURSIVE cyAddNodes(_, _, _)
cyAddNodes(nodes, incoming, ids) ==
  IF incoming = <<>> THEN nodes
  ELSE LET n == Head(incoming) IN
       IF n.id \in ids THEN cyAddNodes(nodes, Tail(incoming), ids)
       ELSE cyAddNodes(Append(nodes, n), Tail(incoming), ids \cup {n.id})

RECURSIVE cyAddEdges(_, _, _, _)
cyAddEdges(edges, incoming, ids, nodeIdSet) ==
  IF incoming = <<>> THEN edges
  ELSE LET e == Head(incoming) IN
       IF e.id \in ids \/ e.source \notin nodeIdSet \/ e.target \notin nodeIdSet
       THEN cyAddEdges(edges, Tail(incoming), ids, nodeIdSet)
       ELSE cyAddEdges(Append(edges, e), Tail(incoming), ids \cup {e.id}, nodeIdSet)

elementIds(g) == idSet(g.nodes) \cup idSet(g.edges)

cyAdd(g, incNodes, incEdges) ==
  LET nodes == cyAddNodes(g.nodes, incNodes, elementIds(g))
      edges == cyAddEdges(g.edges, incEdges, idSet(nodes) \cup idSet(g.edges),
                          idSet(nodes))
  IN [nodes |-> nodes, edges |-> edges,
      pos |-> [id \in idSet(nodes) |->
                 IF id \in DOMAIN g.pos THEN g.pos[id] ELSE Origin]]

cyRemoveByDepth(g, key) ==
  LET depths == {g.nodes[i].depth : i \in {j \in 1..Len(g.nodes) : g.nodes[j].pendingKey = key}}
      nodes == SelectSeq(g.nodes, LAMBDA n : n.depth \notin depths)
      edges == SelectSeq(g.edges, LAMBDA e :
                 /\ e.pendingKey # key
                 /\ \E i \in 1..Len(nodes) : nodes[i].id = e.source
                 /\ \E i \in 1..Len(nodes) : nodes[i].id = e.target)
  IN [nodes |-> nodes, edges |-> edges,
      pos |-> [id \in {nodes[i].id : i \in 1..Len(nodes)} |-> g.pos[id]]]

\* cy.remove(`node[pendingKey = "k"], edge[pendingKey = "k"]`): the elements
\* tagged k, and the edges at a removed node.
cyRemovePending(g, key) ==
  LET nodes == SelectSeq(g.nodes, LAMBDA n : n.pendingKey # key)
      edges == SelectSeq(g.edges, LAMBDA e :
                 /\ e.pendingKey # key
                 /\ HasId(nodes, e.source)
                 /\ HasId(nodes, e.target))
  IN [nodes |-> nodes, edges |-> edges,
      pos |-> [id \in idSet(nodes) |-> g.pos[id]]]

ring1 == 170
ring2 == 320

\* placeOnRing: the position of element i (from 0) of n on the circle.
placeOnRing(rootPos, radius, i, n) ==
  [x |-> rootPos.x + RoundDiv(radius * Cos1000(i, n), 1000),
   y |-> rootPos.y + RoundDiv(radius * Sin1000(i, n), 1000)]

\* computeRingPositions(cy): the positions afterwards.
computeRingPositions(g) ==
  IF ~\E i \in 1..Len(g.nodes) : g.nodes[i].kind = "root" THEN g.pos
  ELSE LET root == g.nodes[CHOOSE i \in 1..Len(g.nodes) :
                             /\ g.nodes[i].kind = "root"
                             /\ \A j \in 1..(i - 1) : g.nodes[j].kind # "root"]
           rootPos == g.pos[root.id]
           depth1 == SelectSeq(g.nodes, LAMBDA n : n.depth = 1)
           depth2 == SelectSeq(g.nodes, LAMBDA n : n.depth >= 2)
       IN [id \in DOMAIN g.pos |->
             IF HasId(depth1, id)
             THEN placeOnRing(rootPos, ring1, IndexOfId(depth1, id) - 1, Len(depth1))
             ELSE IF HasId(depth2, id)
             THEN placeOnRing(rootPos, ring2, IndexOfId(depth2, id) - 1, Len(depth2))
             ELSE g.pos[id]]

step == 190
spread == 120

\* The unit vector from the source of the first edge into the parent to the
\* parent, (1, 0) when no edge enters it.
forwardDirection(g, parentId) ==
  LET inEdges == SelectSeq(g.edges, LAMBDA e : e.target = parentId)
  IN IF Len(inEdges) = 0 THEN [x |-> 1000, y |-> 0]
     ELSE LET p == g.pos[parentId]
              fp == g.pos[inEdges[1].source]
              vx == p.x - fp.x
              vy == p.y - fp.y
              len == Hypot10(vx, vy)
          IN IF len = 0 THEN [x |-> 1000 * vx, y |-> 1000 * vy]
             ELSE [x |-> RoundDiv(10000 * vx, len), y |-> RoundDiv(10000 * vy, len)]

\* The position of child i (from 0) of k: t = i - (k - 1) / 2.
childPosition(p, v, i, k) ==
  LET twoT == 2 * i - (k - 1)
      px == -v.y
      py == v.x
  IN [x |-> p.x + RoundDiv(v.x * step * 2 + px * spread * twoT, 2000),
      y |-> p.y + RoundDiv(v.y * step * 2 + py * spread * twoT, 2000)]

\* The order in which placeChildrenForward takes the child ids: as passed.
childOrder(childIds) == childIds

\* placeChildrenForward(cy, parentId, childIds): the positions afterwards.
\* A later occurrence of an id in the list overwrites an earlier one.
placeChildrenForward(g, parentId, childIds) ==
  IF ~HasId(g.nodes, parentId) THEN g.pos
  ELSE LET p == g.pos[parentId]
           v == forwardDirection(g, parentId)
           ids == childOrder(childIds)
           k == Len(ids)
       IN [id \in DOMAIN g.pos |->
             IF \E i \in 1..k : ids[i] = id
             THEN LET last == CHOOSE i \in 1..k :
                                ids[i] = id /\ \A j \in (i + 1)..k : ids[j] # id
                  IN childPosition(p, v, last - 1, k)
             ELSE g.pos[id]]

(***************************************************************************)
(* The earlier revision of src/components/GraphView.tsx: elements and      *)
(* layout                                                                  *)
(***************************************************************************)
RECURSIVE mergeGroupsLoop(_, _, _, _)
mergeGroupsLoop(merged, nodeIdSet, edgeIdSet, incoming) ==
  IF incoming = <<>> THEN merged
  ELSE LET el == Head(incoming) IN
       IF el.group = "edges"
       THEN IF el.id \in edgeIdSet
            THEN mergeGroupsLoop(merged, nodeIdSet, edgeIdSet, Tail(incoming))
            ELSE mergeGroupsLoop(Append(merged, el), nodeIdSet,
                                 edgeIdSet \cup {el.id}, Tail(incoming))
       ELSE IF el.id \in nodeIdSet
            THEN mergeGroupsLoop(merged, nodeIdSet, edgeIdSet, Tail(incoming))
            ELSE mergeGroupsLoop(Append(merged, el), nodeIdSet \cup {el.id},
                                 edgeIdSet, Tail(incoming))

\* mergeUniqueElements(prev, incoming) of the earlier revision: node ids and
\* edge ids are two pools.
mergeUniqueElementsByGroup(prev, incoming) ==
  mergeGroupsLoop(prev,
                  idSet(SelectSeq(prev, LAMBDA el : el.group = "nodes")),
                  idSet(SelectSeq(prev, LAMBDA el : el.group = "edges")),
                  incoming)

\* The characters of the identifiers, in the order of the collation.
Collation == " _-0123456789abcdefghijklmnopqrstuvwxyz"

CharRank(c) ==
  IF \E i \in 1..Len(Collation) : SubSeq(Collation, i, i) = c
  THEN CHOOSE i \in 1..Len(Collation) : SubSeq(Collation, i, i) = c
  ELSE Len(Collation) + 1

\* a.localeCompare(b): negative, zero or positive.
RECURSIVE localeCompare(_, _)
localeCompare(a, b) ==
  IF a = "" THEN (IF b = "" THEN 0 ELSE -1)
  ELSE IF b = "" THEN 1
  ELSE LET ra == CharRank(SubSeq(a, 1, 1))
           rb == CharRank(SubSeq(b, 1, 1))
       IN IF ra # rb THEN ra - rb
          ELSE localeCompare(SubSeq(a, 2, Len(a)), SubSeq(b, 2, Len(b)))

RECURSIVE insertById(_, _)
insertById(sorted, id) ==
  IF sorted = <<>> THEN <<id>>
  ELSE IF localeCompare(id, Head(sorted)) < 0 THEN <<id>> \o sorted
  ELSE <<Head(sorted)>> \o insertById(Tail(sorted), id)

\* [...ids].sort((a, b) => a.localeCompare(b)); the sort is stable.
RECURSIVE sortIds(_)
sortIds(ids) ==
  IF ids = <<>> THEN <<>>
  ELSE insertById(sortIds(SubSeq(ids, 1, Len(ids) - 1)), ids[Len(ids)])

ringGap == 170

\* computeRingPositions(cy) of the earlier revision: the nodes of depth 0 at
\* the centre, the nodes of depth d on the circle of radius ringGap * d in
\* the order of their ids.
computeRingPositionsByDepth(g) ==
  [id \in DOMAIN g.pos |->
     LET d == g.nodes[IndexOfId(g.nodes, id)].depth
         level == SelectSeq(g.nodes, LAMBDA n : n.depth = d)
         ids == sortIds([i \in 1..Len(level) |-> level[i].id])
         i == CHOOSE j \in 1..Len(ids) : ids[j] = id
     IN IF d = 0 THEN Origin
        ELSE placeOnRing(Origin, ringGap * d, i - 1, Len(ids))]

forwardDist == 200
sideGap == 70
stagger == 28
minSep == 62
maxPushes == 8
pushDist == 40

\* The candidate position of the child at t = twoT / 2 after j pushes.
candidate(fp, v, twoT, j) ==
  LET fd2 == 2 * forwardDist + Abs(twoT) * stagger + 2 * pushDist * j
  IN [x |-> fp.x + RoundDiv(v.x * fd2 + (-v.y) * sideGap * twoT, 2000),
      y |-> fp.y + RoundDiv(v.y * fd2 + v.x * sideGap * twoT, 2000)]

\* No other node of the graph is closer to c than minSep.
separated(pos, id, c) ==
  \A other \in DOMAIN pos \ {id} :
    (pos[other].x - c.x) * (pos[other].x - c.x)
      + (pos[other].y - c.y) * (pos[other].y - c.y) >= minSep * minSep

settleUnchecked(pos, id, fp, v, twoT) == candidate(fp, v, twoT, 0)

\* The position the loop of at most maxPushes pushes ends with.
settle(pos, id, fp, v, twoT) ==
  IF \E j \in 0..(maxPushes - 1) : separated(pos, id, candidate(fp, v, twoT, j))
  THEN candidate(fp, v, twoT,
                 CHOOSE j \in 0..(maxPushes - 1) :
                   /\ separated(pos, id, candidate(fp, v, twoT, j))
                   /\ \A h \in 0..(j - 1) :
                        ~separated(pos, id, candidate(fp, v, twoT, h)))
  ELSE candidate(fp, v, twoT, maxPushes)

\* The body of the for loop from index i (from 1) on; each position is
\* evaluated once, before the next child is placed.
RECURSIVE placeFrom(_, _, _, _, _)
placeFrom(pos, ids, i, fp, v) ==
  IF i > Len(ids) THEN pos
  ELSE IF ids[i] \notin DOMAIN pos THEN placeFrom(pos, ids, i + 1, fp, v)
  ELSE CHOOSE result \in
         { placeFrom([pos EXCEPT ![ids[i]] = c], ids, i + 1, fp, v) :
             c \in {settle(pos, ids[i], fp, v, 2 * (i - 1) - (Len(ids) - 1))} } : TRUE

\* placeChildrenForward(cy, focusId, childIds) of the earlier revision: the
\* positions afterwards.
placeChildrenForwardSorted(g, focusId, childIds) ==
  IF ~HasId(g.nodes, focusId) THEN g.pos
  ELSE placeFrom(g.pos, sortIds(childIds), 1, g.pos[focusId],
                 forwardDirection(g, focusId))
(***************************************************************************)
(* Inputs of the sanitizer                                                 *)
(***************************************************************************)
\* The number of entries of a payload, nodes and edges together.
MaxPayload == 5

\* Sequences over S of length n.
RECURSIVE SeqsOfLen(_, _)
SeqsOfLen(S, n) ==
  IF n = 0 THEN {<<>>}
  ELSE {Append(q, x) : q \in SeqsOfLen(S, n - 1), x \in S}

\* Payload node entries: a Japanese-labelled node carrying its own depth, an
\* id with white space and no label (exempt kind), an ASCII-labelled node of
\* an unknown kind, an entry whose id is blank, and an entry that is no object.
NodePool ==
  { NodeEntry(Str("a"), Str("J"), Str("note"), Num("5")),
    NodeEntry(Str(" a "), Undef, Str("brand"), Undef),
    NodeEntry(Str("b"), Str("x"), Str("zzz"), Num("0")),
    NodeEntry(Str("  "), Str("J"), Str("note"), Null),
    Scalar("number", "7") }

\* Payload edge entries: no id and an ASCII label, an id equal to a node id
\* and no label, a null source, a foreign source.
EdgePool ==
  { EdgeEntry(Undef, Str("r"), Str("a"), Str("x")),
    EdgeEntry(Str("a"), Str("r"), Str("b"), Undef),
    EdgeEntry(Str("e"), Null, Str("a"), Str("J")),
    EdgeEntry(Str("e"), Str("q"), Str("b"), Str("x")) }

\* What a `nodes` or `edges` property holds when it is no array.
OddFields ==
  {Missing, Field("null", <<>>), Field("number", <<>>), Field("string", <<>>),
   Field("object", <<>>)}

\* Payload node arrays by length, and payload edge arrays by maximal length.
NodeListsOfLen == [n \in 0..MaxPayload |-> SeqsOfLen(NodePool, n)]
EdgeListsOfLen == [n \in 0..MaxPayload |-> SeqsOfLen(EdgePool, n)]
EdgeListsUpTo == [n \in 0..MaxPayload |-> UNION {EdgeListsOfLen[k] : k \in 0..n}]

\* Payloads that are no object, and objects with a property that is no array.
OddPayloads ==
  {Raw("null", Missing, Missing), Raw("number", Missing, Missing),
   Raw("array", Missing, Missing)}
    \cup {RawObj(nf, ef) :
            nf \in OddFields
                    \cup {Arr(l) : l \in UNION {NodeListsOfLen[n] : n \in 0..2}},
            ef \in OddFields \cup {Arr(l) : l \in EdgeListsUpTo[1]}}

\* The focus, the ids in use and the kind vocabulary of a call: the root of a
\* fresh graph in a perfume vocabulary, and a depth-1 focus of a graph that
\* already holds "a" and two edges, in a vocabulary of no built-in domain.
Contexts ==
  { [focusId |-> "r", focusDepth |-> 0, existingElementIds |-> <<"r">>,
     allowedKinds |-> <<"root", "brand", "note">>],
    [focusId |-> "r", focusDepth |-> 1,
     existingElementIds |-> <<"q", "r", "a", "q--r--auto", "r--b--auto">>,
     allowedKinds |-> <<"root", "concept">>] }

\* The calls of the scenarios of the specification: two candidates with the
\* id "a" in a vocabulary of no built-in domain, the first with an ASCII
\* label and an unknown kind, the second with a Japanese label.
ScenarioSameId ==
  [ctx |-> [focusId |-> "root", focusDepth |-> 0, existingElementIds |-> <<"root">>,
            allowedKinds |-> <<"root", "concept">>],
   raw |-> RawObj(Arr(<<NodeEntry(Str("a"), Str("Example"), Str("unknownkind"), Undef),
                        NodeEntry(Str("a"), Str("Jbetsunorei"), Str("concept"), Undef)>>),
                  Arr(<<>>))]

Scenarios == {ScenarioSameId}


\* Calls whose payload ids look like resolved ids: a candidate "a__1" before
\* or between two candidates "a".
SuffixCalls ==
  {[ctx |-> ctx, raw |-> RawObj(Arr(nl), Arr(<<>>))] :
     ctx \in Contexts,
     nl \in {<<NodeEntry(Str("a__1"), Str("J"), Str("note"), Undef),
               NodeEntry(Str("a"), Str("J"), Str("note"), Undef),
               NodeEntry(Str("a"), Str("J"), Str("brand"), Undef)>>,
             <<NodeEntry(Str("a"), Str("J"), Str("note"), Undef),
               NodeEntry(Str("a__1"), Str("J"), Str("note"), Undef),
               NodeEntry(Str("a"), Str("J"), Str("brand"), Undef)>>}}

\* Calls with a vocabulary whose last entry is "root": a candidate of a kind
\* of the vocabulary, one of an unknown kind and one without kind.
KindCalls ==
  {[ctx |-> [focusId |-> "r", focusDepth |-> 0, existingElementIds |-> <<"r">>,
             allowedKinds |-> <<"brand", "note", "root">>],
    raw |-> RawObj(Arr(nl), Arr(<<>>))] :
     nl \in {<<NodeEntry(Str("a"), Str("J"), Str("note"), Undef),
               NodeEntry(Str("b"), Str("J"), Str("zzz"), Undef)>>,
             <<NodeEntry(Str("a"), Str("J"), Undef, Undef)>>}}

\* Calls whose payload edges carry a label with a non-ASCII character that is
\* not Japanese, a null label and an ASCII label, to a note and to a brand.
LabelCalls ==
  {[ctx |-> ctx,
    raw |-> RawObj(Arr(<<NodeEntry(Str("a"), Str("J"), Str("note"), Undef),
                         NodeEntry(Str("b"), Undef, Str("brand"), Undef)>>),
                   Arr(el))] :
     ctx \in Contexts,
     el \in {<<EdgeEntry(Undef, Str("r"), Str("a"), Str("xE")),
               EdgeEntry(Undef, Str("r"), Str("b"), Str("x"))>>,
             <<EdgeEntry(Undef, Str("r"), Str("a"), Null),
               EdgeEntry(Undef, Str("r"), Str("b"), Str("E"))>>}}
(***************************************************************************)
(* State                                                                   *)
(*   call, ret   the arguments and the outcome of one sanitizer call (with  *)
(*               `resolved`, the candidates after the id resolution, as    *)
(*               history)                                                  *)
(*   rev         the revision of GraphView.tsx that runs                   *)
(*   cy          the Cytoscape graph: nodes, edges, node positions         *)
(*   elements    the React `elements` state (id, group, pendingKey)        *)
(*   loading     the in-flight flag                                        *)
(*   hasStarted  hasStartedRef.current                                     *)
(*   ops         the expand() calls suspended at the fetch (with the graph *)
(*               and the elements state each found, as history)            *)
(*   now         the last value Date.now() returned                        *)
(*   fetchCount  the number of requests sent to the expand endpoint        *)
(*   batches     history: for each merged focus, the child ids of its batch *)
(*   lastEvent   history: the last handler that ran and what it did (for a  *)
(*               response: the answer of the Generator, whether the         *)
(*               sanitizer ran, the ids of the elements it carried, the     *)
(*               graph after each mutation of the merge, the number of      *)
(*               nodes the Generator proposed)                              *)
(***************************************************************************)
VARIABLES call, ret, rev, cy, elements, loading, hasStarted, ops, now, fetchCount,
          batches, lastEvent

vars == <<call, ret, rev, cy, elements, loading, hasStarted, ops, now, fetchCount,
          batches, lastEvent>>

sanVars == <<call, ret>>
viewVars == <<rev, cy, elements, loading, hasStarted, ops, now, fetchCount, batches,
              lastEvent>>

NoCall == [ctx |-> [focusId |-> "", focusDepth |-> 0, existingElementIds |-> <<>>,
                    allowedKinds |-> <<>>],
           raw |-> Raw("null", Missing, Missing)]
NoRet == [state |-> "none", nodes |-> <<>>, edges |-> <<>>, resolved |-> <<>>]

\* DOMAINS.perfume
rootId == "perfume_root"
rootKind == "root"
allowedKinds ==
  <<"root", "brand", "perfume", "note", "accord", "perfumer", "style", "category">>

\* The two revisions of src/components/GraphView.tsx: "part_000" inserts
\* placeholders and sends existingElementIds, "part_001" does neither.
Revisions == {"part_000", "part_001"}

\* The state of a mounted GraphView: the root element alone, at the origin.
InitView(revision) ==
  /\ rev = revision
  /\ cy = [nodes |-> <<[id |-> rootId, kind |-> rootKind, depth |-> 0,
                        expanded |-> FALSE, pendingKey |-> ""]>>,
           edges |-> <<>>,
           pos |-> [id \in {rootId} |-> Origin]]
  /\ elements = <<[id |-> rootId, group |-> "nodes", pendingKey |-> ""]>>
  /\ loading = FALSE
  /\ hasStarted = FALSE
  /\ ops = {}
  /\ now = 0
  /\ fetchCount = 0
  /\ batches = [id \in {} |-> <<>>]
  /\ lastEvent = [kind |-> "none", node |-> "", outcome |-> "", answer |-> "",
                  sanitized |-> FALSE, merged |-> <<>>, stages |-> <<>>, candidates |-> 0]

InitSanitize ==
  /\ \/ call \in Scenarios
     \/ call \in SuffixCalls
     \/ call \in KindCalls
     \/ call \in LabelCalls
     \/ \E ctx \in Contexts :
         \/ \E raw \in OddPayloads : call = [ctx |-> ctx, raw |-> raw]
         \/ \E n \in 0..MaxPayload : \E nl \in NodeListsOfLen[n] :
              \E el \in EdgeListsUpTo[MaxPayload - n] :
                call = [ctx |-> ctx, raw |-> RawObj(Arr(nl), Arr(el))]
  /\ ret = NoRet
  /\ InitView("part_000")

\* One call of sanitizeExpandResult on the drawn input.
Sanitize ==
  /\ ret.state = "none"
  /\ LET r == sanitizeExpandResult(call.ctx.focusId, call.ctx.focusDepth,
                                   call.ctx.existingElementIds,
                                   call.ctx.allowedKinds, call.raw)
     IN ret' = [state |-> IF r.raised THEN "raised" ELSE "returned",
                nodes |-> r.nodes, edges |-> r.edges,
                resolved |-> resolvedCandidates(call.ctx.focusDepth,
                               call.ctx.existingElementIds, call.ctx.allowedKinds,
                               arrayOrRaise(rawProperty(call.raw, "nodes")).items)]
  /\ UNCHANGED call
  /\ UNCHANGED viewVars

NextSanitize == Sanitize

SpecSanitize == InitSanitize /\ [][NextSanitize]_vars

(***************************************************************************)
(* GraphView: start(), the tap handler, expand()                           *)
(***************************************************************************)
\* The number of requests the model lets the view send.
MaxFetches == 3
\* The largest value Date.now() returns.
MaxClock == 1

PendingCount == 3

\* What the Generator may answer for a focus: no node, one node without
\* edges, two nodes with one edge that has no id, a node and an edge that
\* carries the node's id, an object whose `nodes` is a number, and a node
\* with an ASCII label (which the language filter rejects) with its edge.
GenPool(focusId) ==
  { RawObj(Arr(<<>>), Arr(<<>>)),
    RawObj(Arr(<<NodeEntry(Str("a"), Str("J"), Str("note"), Num("9"))>>), Missing),
    RawObj(Arr(<<NodeEntry(Str("b"), Str("J"), Str("note"), Undef),
                 NodeEntry(Str("a"), Str("x"), Str("brand"), Undef)>>),
           Arr(<<EdgeEntry(Undef, Str(focusId), Str("b"), Str("x"))>>)),
    RawObj(Arr(<<NodeEntry(Str("c"), Str("J"), Str("note"), Undef)>>),
           Arr(<<EdgeEntry(Str("c"), Str(focusId), Str("c"), Str("J"))>>)),
    RawObj(Field("number", <<>>), Missing),
    RawObj(Arr(<<NodeEntry(Str("d"), Str("x"), Str("note"), Undef)>>),
           Arr(<<EdgeEntry(Undef, Str(focusId), Str("d"), Str("x"))>>)) }

neverBusy(flag) == FALSE

\* if (loading) return;
busy(flag) == flag

expandOutcomeAgain(nodeId) ==
  IF busy(loading) THEN "busy"
  ELSE IF ~HasId(cy.nodes, nodeId) THEN "missing"
  ELSE "started"

\* What expand(nodeId) does before it suspends: "busy", "missing", "expanded"
\* (it returns at once) or "started".
expandOutcome(nodeId) ==
  IF busy(loading) THEN "busy"
  ELSE IF ~HasId(cy.nodes, nodeId) THEN "missing"
  ELSE IF cy.nodes[IndexOfId(cy.nodes, nodeId)].expanded THEN "expanded"
  ELSE "started"

\* spec.allowedKinds.includes("style") ? "style" : (first kind that is not
\* "root" ?? spec.root.kind)
pendingKind ==
  IF "style" \in SeqToSet(allowedKinds) THEN "style"
  ELSE IF \E i \in 1..Len(allowedKinds) : allowedKinds[i] # "root"
  THEN allowedKinds[CHOOSE i \in 1..Len(allowedKinds) :
                      /\ allowedKinds[i] # "root"
                      /\ \A j \in 1..(i - 1) : allowedKinds[j] = "root"]
  ELSE rootKind

asElements(q, group) ==
  [i \in 1..Len(q) |-> [id |-> q[i].id, group |-> group, pendingKey |-> q[i].pendingKey]]

layoutAlwaysRing(revision, g, focusId, childIds) ==
  IF revision = "part_000" THEN computeRingPositions(g)
  ELSE computeRingPositionsByDepth(g)

\* The layout call of expand(): the ring for the root, the fan otherwise.
layout(revision, g, focusId, childIds) ==
  IF revision = "part_000"
  THEN IF focusId = rootId THEN computeRingPositions(g)
       ELSE placeChildrenForward(g, focusId, childIds)
  ELSE IF focusId = rootId THEN computeRingPositionsByDepth(g)
       ELSE placeChildrenForwardSorted(g, focusId, childIds)

nodeIdList(g) == [i \in 1..Len(g.nodes) |-> g.nodes[i].id]

\* expand(nodeId) of part_000 from its first line to the fetch, Date.now()
\* returning t.
expandBegin(nodeId, t) ==
  LET node == cy.nodes[IndexOfId(cy.nodes, nodeId)]
      pendingKeyLocal == nodeId \o "__pending__" \o ToString(t)
      focusNode == [id |-> node.id, depth |-> node.depth]
      existingElementIds ==
        nodeIdList(cy) \o [i \in 1..Len(cy.edges) |-> cy.edges[i].id]
      pendingNodes ==
        [i \in 1..PendingCount |->
           [id |-> pendingKeyLocal \o "__n" \o ToString(i), kind |-> pendingKind,
            depth |-> focusNode.depth + 1, expanded |-> FALSE,
            pendingKey |-> pendingKeyLocal]]
      pendingEdges ==
        [i \in 1..PendingCount |->
           [id |-> pendingKeyLocal \o "__e" \o ToString(i), source |-> focusNode.id,
            target |-> pendingNodes[i].id, pendingKey |-> pendingKeyLocal]]
      pendingChildIds == [i \in 1..PendingCount |-> pendingNodes[i].id]
  IN /\ loading' = TRUE
     /\ elements' = mergeUniqueElements(elements,
                      asElements(pendingNodes, "nodes")
                        \o asElements(pendingEdges, "edges"))
     /\ \E g1 \in {cyAdd(cy, pendingNodes, pendingEdges)} :
          cy' = [g1 EXCEPT !.pos = layout(rev, g1, focusNode.id, pendingChildIds)]
     /\ ops' = ops \cup {[nodeId |-> nodeId, pendingKey |-> pendingKeyLocal,
                          focusNode |-> focusNode,
                          existingElementIds |-> existingElementIds,
                          existingNodeIds |-> <<>>,
                          before |-> [cy |-> cy, elements |-> elements]]}
     /\ fetchCount' = fetchCount + 1
     /\ now' = t
     /\ UNCHANGED batches

\* expand(nodeId) of part_001 from its first line to the fetch.
expandBeginPlain(nodeId) ==
  LET node == cy.nodes[IndexOfId(cy.nodes, nodeId)]
      focusNode == [id |-> node.id, depth |-> node.depth]
  IN /\ loading' = TRUE
     /\ ops' = ops \cup {[nodeId |-> nodeId, pendingKey |-> "",
                          focusNode |-> focusNode,
                          existingElementIds |-> <<>>,
                          existingNodeIds |-> nodeIdList(cy),
                          before |-> [cy |-> cy, elements |-> elements]]}
     /\ fetchCount' = fetchCount + 1
     /\ UNCHANGED <<cy, elements, now, batches>>

\* A call of expand(nodeId) from the handler `kind`.
expandCall(kind, nodeId) ==
  LET outcome == expandOutcome(nodeId) IN
  /\ lastEvent' = [kind |-> kind, node |-> nodeId, outcome |-> outcome,
                   answer |-> "", sanitized |-> FALSE, merged |-> <<>>, stages |-> <<>>, candidates |-> 0]
  /\ IF outcome = "started"
     THEN /\ fetchCount < MaxFetches
          /\ IF rev = "part_000"
             THEN \E t \in now..MaxClock : expandBegin(nodeId, t)
             ELSE expandBeginPlain(nodeId)
     ELSE UNCHANGED <<cy, elements, loading, ops, now, fetchCount, batches>>

\* start(): the button of the overlay.
Start ==
  /\ ~hasStarted
  /\ hasStarted' = TRUE
  /\ expandCall("start", rootId)
  /\ UNCHANGED <<rev, call, ret>>

\* The tap handler of a node of the graph.
Tap(nodeId) ==
  /\ hasStarted
  /\ HasId(cy.nodes, nodeId)
  /\ expandCall("tap", nodeId)
  /\ UNCHANGED <<rev, hasStarted, call, ret>>

markExpandedIfChildren(g, nodeId) ==
  [g EXCEPT !.nodes = [i \in 1..Len(g.nodes) |->
                         IF /\ g.nodes[i].id = nodeId
                            /\ \E j \in 1..Len(g.edges) : g.edges[j].source = nodeId
                         THEN [g.nodes[i] EXCEPT !.expanded = TRUE]
                         ELSE g.nodes[i]]]

\* node.data("expanded", true)
markExpanded(g, nodeId) ==
  [g EXCEPT !.nodes = [i \in 1..Len(g.nodes) |->
                         IF g.nodes[i].id = nodeId
                         THEN [g.nodes[i] EXCEPT !.expanded = TRUE]
                         ELSE g.nodes[i]]]

keepPending(g, op) == g

\* The placeholders of an expansion leave the graph and the elements
\* (part_001 has none).
dropPending(g, op) ==
  IF rev = "part_000" THEN cyRemovePending(g, op.pendingKey) ELSE g

dropPendingElements(els, op) ==
  IF rev = "part_000"
  THEN SelectSeq(els, LAMBDA el : el.pendingKey # op.pendingKey)
  ELSE els

expandFinallyStillLoading(g, els, op) ==
  /\ \E g0 \in {g} : cy' = dropPending(g0, op)
  /\ elements' = dropPendingElements(els, op)
  /\ loading' = TRUE
  /\ ops' = ops \ {op}

\* The finally block of expand().
expandFinally(g, els, op) ==
  /\ \E g0 \in {g} : cy' = dropPending(g0, op)
  /\ elements' = dropPendingElements(els, op)
  /\ loading' = FALSE
  /\ ops' = ops \ {op}

\* The body of the request of op: JSON.stringify({ focusNode,
\* existingElementIds }) in part_000, ({ focusNode, existingNodeIds }) in
\* part_001.
requestBody(revision, op) ==
  [focusNode |-> op.focusNode,
   existingElementIds |->
     IF revision = "part_000" THEN Arr(op.existingElementIds) ELSE Missing,
   existingNodeIds |->
     IF revision = "part_000" THEN Missing ELSE Arr(op.existingNodeIds)]

requestExistingBoth(body) ==
  (IF body.existingElementIds.t = "array" THEN body.existingElementIds.items ELSE <<>>)
    \o (IF IsNullish(body.existingNodeIds) THEN <<>> ELSE body.existingNodeIds.items)

\* handleExpand: the identifiers it hands to the sanitizer,
\* Array.isArray(body.existingElementIds) && length > 0
\*   ? body.existingElementIds : (body.existingNodeIds ?? [])
requestExisting(body) ==
  IF body.existingElementIds.t = "array" /\ Len(body.existingElementIds.items) > 0
  THEN body.existingElementIds.items
  ELSE IF IsNullish(body.existingNodeIds) THEN <<>>
  ELSE body.existingNodeIds.items

\* What the Generator may do: fail (no key, no connection, a response that
\* is not ok), answer with text that is no JSON, or answer with JSON.
GeneratorAnswers(focusId) ==
  {[kind |-> "unreachable", raw |-> Raw("null", Missing, Missing)],
   [kind |-> "text", raw |-> Raw("null", Missing, Missing)]}
    \cup {[kind |-> "json", raw |-> raw] : raw \in GenPool(focusId)}

NoPayload == [raised |-> FALSE, nodes |-> <<>>, edges |-> <<>>]

\* handleExpand for a request body and an answer of the Generator: the
\* status of the response, whether sanitizeExpandResult was called and with
\* which identifiers, and the body of a response that is ok.  An exception
\* leaves the route as a 500.
handleExpand(body, answer) ==
  IF body.focusNode.id = ""
  THEN [status |-> 400, sanitized |-> FALSE, used |-> <<>>, payload |-> NoPayload]
  ELSE IF answer.kind \in {"unreachable", "text"}
  THEN [status |-> 500, sanitized |-> FALSE, used |-> <<>>, payload |-> NoPayload]
  ELSE \* bound once: the value of an \E over a singleton is kept
       CHOOSE r \in {[status |-> IF s.raised THEN 500 ELSE 200, sanitized |-> TRUE,
                       used |-> requestExisting(body), payload |-> s] :
                        s \in {sanitizeExpandResult(body.focusNode.id, body.focusNode.depth,
                                                    requestExisting(body), allowedKinds,
                                                    answer.raw)}} : TRUE

\* What the history keeps of the graph after one mutation of expand(): the
\* ids of its elements, the pendingKeys in it, the expanded nodes and the
\* positions.
stage(g) ==
  [ids |-> elementIds(g),
   pending |-> ({g.nodes[i].pendingKey : i \in 1..Len(g.nodes)}
                  \cup {g.edges[i].pendingKey : i \in 1..Len(g.edges)}) \ {""},
   expanded |-> {g.nodes[i].id : i \in {j \in 1..Len(g.nodes) : g.nodes[j].expanded}},
   pos |-> g.pos]

\* expand() resumes with a response that is ok: the sanitized payload of
\* handleExpand for the answer `raw` of the Generator.
ResponseOk(op, raw) ==
  \E response \in {handleExpand(requestBody(rev, op), [kind |-> "json", raw |-> raw])} :
  \E payload \in {response.payload} :
    LET incNodes == [i \in 1..Len(payload.nodes) |->
                       [id |-> payload.nodes[i].id, kind |-> payload.nodes[i].kind,
                        depth |-> payload.nodes[i].depth, expanded |-> FALSE,
                        pendingKey |-> ""]]
        incEdges == [i \in 1..Len(payload.edges) |->
                       [id |-> payload.edges[i].id,
                        source |-> payload.edges[i].source,
                        target |-> payload.edges[i].target, pendingKey |-> ""]]
        incoming == asElements(incNodes, "nodes") \o asElements(incEdges, "edges")
        els1 == dropPendingElements(elements, op)
        els2 == IF rev = "part_000" THEN mergeUniqueElements(els1, incoming)
                ELSE mergeUniqueElementsByGroup(els1, incoming)
        childIds == [i \in 1..Len(payload.nodes) |-> payload.nodes[i].id]
    IN /\ response.status = 200
       /\ \E g1 \in {dropPending(cy, op)} :
          \E g2 \in {cyAdd(g1, incNodes, incEdges)} :
          \E g3 \in {markExpanded(g2, op.nodeId)} :
          \E g4 \in {[g3 EXCEPT !.pos = layout(rev, g3, op.focusNode.id, childIds)]} :
            /\ expandFinally(g4, els2, op)
            /\ lastEvent' = [kind |-> "response", node |-> op.nodeId, outcome |-> "ok",
                             answer |-> "json", sanitized |-> response.sanitized,
                             merged |-> [i \in 1..Len(incoming) |-> incoming[i].id],
                             stages |-> <<stage(cy), stage(g1), stage(g2), stage(g3),
                                          stage(g4)>>,
                             candidates |-> Len(arrayOrRaise(rawProperty(raw, "nodes")).items)]
       /\ batches' = [id \in DOMAIN batches \cup {op.nodeId} |->
                        IF id = op.nodeId THEN childIds ELSE batches[id]]
       /\ UNCHANGED <<rev, hasStarted, now, fetchCount, call, ret>>

\* expand() resumes with a response that is not ok (the Generator call
\* failed, its answer was no JSON, or handleExpand raised): it throws.
ResponseNotOk(op) ==
  /\ \E answer \in GeneratorAnswers(op.focusNode.id) :
     \E response \in {handleExpand(requestBody(rev, op), answer)} :
       /\ response.status # 200
       /\ lastEvent' = [kind |-> "response", node |-> op.nodeId, outcome |-> "notok",
                        answer |-> answer.kind, sanitized |-> response.sanitized,
                        merged |-> <<>>, stages |-> <<>>, candidates |-> 0]
  /\ expandFinally(cy, elements, op)
  /\ UNCHANGED <<rev, hasStarted, now, fetchCount, batches, call, ret>>

\* The fetch rejects (the endpoint is unreachable).
FetchRejects(op) ==
  /\ expandFinally(cy, elements, op)
  /\ lastEvent' = [kind |-> "response", node |-> op.nodeId, outcome |-> "rejected",
                   answer |-> "", sanitized |-> FALSE, merged |-> <<>>, stages |-> <<>>, candidates |-> 0]
  /\ UNCHANGED <<rev, hasStarted, now, fetchCount, batches, call, ret>>

Init ==
  /\ call = NoCall
  /\ ret = NoRet
  /\ \E revision \in Revisions : InitView(revision)

Next ==
  \/ Start
  \/ \E i \in 1..Len(cy.nodes) : Tap(cy.nodes[i].id)
  \/ \E op \in ops : \E raw \in GenPool(op.focusNode.id) : ResponseOk(op, raw)
  \/ \E op \in ops : ResponseNotOk(op)
  \/ \E op \in ops : FetchRejects(op)

Spec == Init /\ [][Next]_vars

(***************************************************************************)
(* Claims about the sanitizer (checked under SpecSanitize)                 *)
(***************************************************************************)
Returned == ret.state = "returned"
OutNodeIds == {ret.nodes[i].id : i \in 1..Len(ret.nodes)}
OutEdgeIds == {ret.edges[i].id : i \in 1..Len(ret.edges)}
Existing == SeqToSet(call.ctx.existingElementIds)
PayloadNodes == arrayOrRaise(rawProperty(call.raw, "nodes")).items
PayloadEdges == arrayOrRaise(rawProperty(call.raw, "edges")).items

\* C1: sanitizeExpandResult is total: whatever the decoded payload is, the
\* call returns (with an array `nodes` and an array `edges`) and never raises.
C1_NeverRaises == ret.state # "raised"

\* C2: every output node has depth focusDepth + 1, whatever depth the payload
\* entry carried.
C2_DepthForced ==
  Returned => \A i \in 1..Len(ret.nodes) : ret.nodes[i].depth = call.ctx.focusDepth + 1

\* C2 witness: an output node whose payload entry carried another depth.
C2_Witness ==
  /\ Returned
  /\ \E i \in 1..Len(ret.nodes) :
       LET e == PayloadNodes[ret.nodes[i].src] IN
       e.depth.t = "number" /\ DigitValue(e.depth.v) # call.ctx.focusDepth + 1

\* C3: every output edge has source focusId and targets the id of an output
\* node of the same call, never an id of usedIdentifiers.
C3_EdgesFromFocusToBatch ==
  Returned =>
    \A i \in 1..Len(ret.edges) :
      /\ ret.edges[i].source = call.ctx.focusId
      /\ ret.edges[i].target \in OutNodeIds
      /\ ret.edges[i].target \notin Existing

\* C3 witness: a model-derived and a synthesized edge in one output, from a
\* payload that also holds an edge focus -> pre-existing id.
C3_Witness ==
  /\ Returned
  /\ \E i \in 1..Len(ret.edges) : ret.edges[i].origin = "model"
  /\ \E i \in 1..Len(ret.edges) : ret.edges[i].origin = "auto"
  /\ \E j \in 1..Len(PayloadEdges) :
       /\ PayloadEdges[j].t = "object"
       /\ JSString(PayloadEdges[j].source) = call.ctx.focusId
       /\ JSString(PayloadEdges[j].target) \in Existing

\* C4: no output node id and no output edge id is in usedIdentifiers.
C4_IdsNotUsed == Returned => (OutNodeIds \cup OutEdgeIds) \cap Existing = {}

\* C4 witness: an output node whose payload id was in use and an output edge
\* whose payload id was in use.
C4_Witness ==
  /\ Returned
  /\ \E i \in 1..Len(ret.nodes) :
       Trim(JSString(PayloadNodes[ret.nodes[i].src].id)) \in Existing
  /\ \E i \in 1..Len(ret.edges) :
       /\ ret.edges[i].origin = "model"
       /\ JSString(PayloadEdges[ret.edges[i].src].id) \in Existing

\* C5: all ids of one output are pairwise distinct, nodes and edges together.
C5_AllIdsDistinct ==
  Returned =>
    /\ \A i, j \in 1..Len(ret.nodes) : i # j => ret.nodes[i].id # ret.nodes[j].id
    /\ \A i, j \in 1..Len(ret.edges) : i # j => ret.edges[i].id # ret.edges[j].id
    /\ OutNodeIds \cap OutEdgeIds = {}

\* C6: a non-empty node list comes with a non-empty edge list, and every
\* output node is the target of an output edge.
C6_Connected ==
  (Returned /\ Len(ret.nodes) > 0) =>
    /\ Len(ret.edges) > 0
    /\ \A i \in 1..Len(ret.nodes) :
         \E j \in 1..Len(ret.edges) : ret.edges[j].target = ret.nodes[i].id

\* C6 witness: two output nodes, one reached by a model-derived edge and one
\* by a synthesized edge.
C6_Witness ==
  /\ Returned
  /\ Len(ret.nodes) >= 2
  /\ \E j \in 1..Len(ret.edges) : ret.edges[j].origin = "model"
  /\ \E j \in 1..Len(ret.edges) : ret.edges[j].origin = "auto"

\* C7: at most 3 output nodes, in the relative order of their payload entries.
C7_CapAndOrder ==
  Returned =>
    /\ Len(ret.nodes) <= 3
    /\ \A i, j \in 1..Len(ret.nodes) : i < j => ret.nodes[i].src < ret.nodes[j].src

\* C7 witness: a payload with more than 3 candidates that pass every filter
\* (a vocabulary without language filter), cut to 3.
C7_Witness ==
  /\ Returned
  /\ Len(ret.nodes) = 3
  /\ inferDomainFromAllowedKinds(call.ctx.allowedKinds) = "unknown"
  /\ Cardinality({i \in 1..Len(PayloadNodes) :
                    /\ hasStringId(PayloadNodes[i])
                    /\ Len(Trim(JSString(PayloadNodes[i].id))) > 0}) > 3

\* C15: for the call with two candidates of id "a" (the first with an ASCII
\* label and an unknown kind) in the vocabulary <<"root", "concept">>, the
\* output nodes are exactly "a__1" with depth 1 and the output edges exactly
\* one synthesized edge root -> a__1.
C15_ScenarioSameId ==
  (call = ScenarioSameId /\ ret.state # "none") =>
    /\ Returned
    /\ [i \in 1..Len(ret.nodes) |-> ret.nodes[i].id] = <<"a__1">>
    /\ \A i \in 1..Len(ret.nodes) : ret.nodes[i].depth = 1
    /\ Len(ret.edges) = 1
    /\ \A i \in 1..Len(ret.edges) :
         /\ ret.edges[i].source = "root"
         /\ ret.edges[i].target = "a__1"
         /\ ret.edges[i].origin # "model"

\* C16: when no payload edge is in the output (the payload has no `edges`,
\* or none of its edges passes), the output has one edge per output node, in
\* node order, from the focus to that node, labelled with the default
\* relation label of the node's kind.
C16_OneAutoEdgePerNode ==
  (Returned /\ \A i \in 1..Len(ret.edges) : ret.edges[i].origin # "model") =>
    /\ Len(ret.edges) = Len(ret.nodes)
    /\ \A i \in 1..Len(ret.edges) :
         /\ ret.edges[i].source = call.ctx.focusId
         /\ ret.edges[i].target = ret.nodes[i].id
         /\ ret.edges[i].label =
              edgeLabelJa(inferDomainFromAllowedKinds(call.ctx.allowedKinds),
                          ret.nodes[i].kind)

\* C16 witness: a payload without `edges` and two output nodes whose kinds
\* have different default labels.
C16_Witness ==
  /\ Returned
  /\ rawProperty(call.raw, "edges").t = "undefined"
  /\ Len(ret.nodes) >= 2
  /\ Len(ret.edges) = Len(ret.nodes)
  /\ ret.edges[1].label # ret.edges[2].label

\* The output edges that come from a payload edge.
ModelEdges == {i \in 1..Len(ret.edges) : ret.edges[i].origin = "model"}

\* C17: an output edge that comes from a payload edge has that edge's source,
\* which is focusId, and that edge's target, which is the id of an output
\* node; no two come from the same payload edge; every other payload edge is
\* absent; and an output node no such edge targets is the target of exactly
\* one synthesized edge from the focus.
C17_EdgesNeverRepaired ==
  Returned =>
    /\ \A i \in ModelEdges :
         LET e == PayloadEdges[ret.edges[i].src] IN
         /\ e.t = "object"
         /\ ~IsNullish(e.source)
         /\ ~IsNullish(e.target)
         /\ JSString(e.source) = call.ctx.focusId
         /\ ret.edges[i].source = JSString(e.source)
         /\ ret.edges[i].target = JSString(e.target)
         /\ ret.edges[i].target \in OutNodeIds
    /\ \A i, j \in ModelEdges : ret.edges[i].src = ret.edges[j].src => i = j
    /\ \A n \in 1..Len(ret.nodes) :
         (\A i \in ModelEdges : ret.edges[i].target # ret.nodes[n].id)
           => Cardinality({i \in 1..Len(ret.edges) :
                             /\ ret.edges[i].origin # "model"
                             /\ ret.edges[i].source = call.ctx.focusId
                             /\ ret.edges[i].target = ret.nodes[n].id}) = 1

\* C17 witness: the payload holds an edge from the focus to the id a
\* candidate had before it was renamed and an edge whose source is null or
\* foreign; the output holds a payload edge and a synthesized edge to the
\* renamed node.
C17_Witness ==
  /\ Returned
  /\ ModelEdges # {}
  /\ \E j \in 1..Len(PayloadEdges) :
       \/ IsNullish(PayloadEdges[j].source)
       \/ JSString(PayloadEdges[j].source) # call.ctx.focusId
  /\ \E n \in 1..Len(ret.nodes) : \E j \in 1..Len(PayloadEdges) :
       /\ ret.nodes[n].id # Trim(JSString(PayloadNodes[ret.nodes[n].src].id))
       /\ JSString(PayloadEdges[j].source) = call.ctx.focusId
       /\ JSString(PayloadEdges[j].target) = Trim(JSString(PayloadNodes[ret.nodes[n].src].id))
       /\ \A i \in ModelEdges : ret.edges[i].src # j
       /\ \E i \in 1..Len(ret.edges) :
            ret.edges[i].origin = "auto" /\ ret.edges[i].target = ret.nodes[n].id

\* The trimmed payload id of the k-th resolved candidate, the ids claimed
\* when it is processed, and b__i.
BaseOf(k) == Trim(JSString(PayloadNodes[ret.resolved[k].src].id))
ClaimedBefore(k) == Existing \cup {ret.resolved[j].id : j \in 1..(k - 1)}
Suffixed(b, i) == b \o "__" \o ToString(i)
SuffixRange == 1..(Len(ret.resolved) + Cardinality(Existing))

\* No candidate is dropped by the resolution: every payload entry with a
\* string id that is not blank is a resolved candidate, in payload order.
NoCandidateDropped ==
  /\ {ret.resolved[k].src : k \in 1..Len(ret.resolved)} =
       {i \in 1..Len(PayloadNodes) :
          hasStringId(PayloadNodes[i]) /\ Len(Trim(JSString(PayloadNodes[i].id))) > 0}
  /\ \A j, k \in 1..Len(ret.resolved) : j < k => ret.resolved[j].src < ret.resolved[k].src

\* A candidate keeps its trimmed id b when b is not yet claimed, and gets
\* b__i for the smallest i >= 1 with b__i not yet claimed otherwise; the
\* claimed ids are usedIdentifiers and the resolved ids of the candidates
\* before it.
SmallestFreeSuffix ==
  \A k \in 1..Len(ret.resolved) :
    IF BaseOf(k) \notin ClaimedBefore(k) THEN ret.resolved[k].id = BaseOf(k)
    ELSE \E i \in SuffixRange :
           /\ ret.resolved[k].id = Suffixed(BaseOf(k), i)
           /\ Suffixed(BaseOf(k), i) \notin ClaimedBefore(k)
           /\ \A j \in 1..(i - 1) : Suffixed(BaseOf(k), j) \in ClaimedBefore(k)

\* The candidates before k that share its base.
EarlierSameBase(k) == {j \in 1..(k - 1) : BaseOf(j) = BaseOf(k)}

\* The m-th repetition of a base that was unclaimed gets b__m.
SharedBaseInSequence(k) ==
  LET m == Cardinality(EarlierSameBase(k)) IN
  ret.resolved[k].id = IF m = 0 THEN BaseOf(k) ELSE Suffixed(BaseOf(k), m)

\* The base of k was unclaimed when its first candidate was processed.
BaseWasUnclaimed(k) ==
  \A j \in (EarlierSameBase(k) \cup {k}) :
    EarlierSameBase(j) = {} => BaseOf(j) \notin ClaimedBefore(j)

\* No b__i is claimed by usedIdentifiers or by a candidate of another base.
SuffixesFree(k) ==
  \A i \in SuffixRange :
    /\ Suffixed(BaseOf(k), i) \notin Existing
    /\ \A j \in 1..(k - 1) : BaseOf(j) # Suffixed(BaseOf(k), i)

\* C19 as stated: no candidate is dropped, each gets b or the smallest free
\* b__i, and k candidates sharing a base that was unclaimed get b, b__1, ...,
\* b__(k-1) in payload order.
C19_SuffixesInSequence ==
  Returned =>
    /\ NoCandidateDropped
    /\ SmallestFreeSuffix
    /\ \A k \in 1..Len(ret.resolved) : BaseWasUnclaimed(k) => SharedBaseInSequence(k)

\* C19, amended: no candidate is dropped, each gets b or the smallest free
\* b__i, and k candidates sharing a base that was unclaimed get b, b__1, ...,
\* b__(k-1) in payload order when no b__i is in usedIdentifiers or the id of
\* another candidate.
C19_SmallestFreeSuffix ==
  Returned =>
    /\ NoCandidateDropped
    /\ SmallestFreeSuffix
    /\ \A k \in 1..Len(ret.resolved) :
         (BaseWasUnclaimed(k) /\ SuffixesFree(k)) => SharedBaseInSequence(k)

\* C19 witness: three candidates sharing a base that was unclaimed, resolved
\* to b, b__1, b__2.
C19_Witness ==
  /\ Returned
  /\ \E k \in 1..Len(ret.resolved) :
       /\ Cardinality(EarlierSameBase(k)) = 2
       /\ BaseWasUnclaimed(k)
       /\ ret.resolved[k].id = Suffixed(BaseOf(k), 2)
       /\ \E j \in EarlierSameBase(k) : ret.resolved[j].id = Suffixed(BaseOf(k), 1)

\* The first 3 id-resolved candidates.
FirstThreeResolved ==
  SubSeq(ret.resolved, 1, IF Len(ret.resolved) > 3 THEN 3 ELSE Len(ret.resolved))

\* C20: the cap comes before the language filter: the output nodes are
\* exactly those of the first 3 id-resolved candidates that pass the language
\* filter, and no candidate at position 4 or later among the candidates is
\* in the output.
C20_CapBeforeFilter ==
  Returned =>
    /\ ret.nodes =
         SelectSeq(FirstThreeResolved,
                   LAMBDA n : passesLanguageFilter(
                                inferDomainFromAllowedKinds(call.ctx.allowedKinds), n))
    /\ \A i \in 1..Len(ret.nodes) :
         \E k \in 1..Len(FirstThreeResolved) : ret.resolved[k].src = ret.nodes[i].src

\* The kinds that name proper nouns: those of the built-in vocabulary the
\* allowedKinds match, and both lists for a vocabulary that matches neither.
ProperNounKinds(domain) ==
  IF domain = "perfume" THEN {"brand", "perfume", "perfumer"}
  ELSE IF domain = "wine" THEN {"producer", "wine", "grape", "vintage", "appellation"}
  ELSE {"brand", "perfume", "perfumer", "producer", "wine", "grape", "vintage",
        "appellation"}

\* The rule of the language filter: a candidate is removed when its kind
\* names no proper noun and its label is ASCII from end to end.
RemovedByRule(n) ==
  /\ n.kind \notin ProperNounKinds(inferDomainFromAllowedKinds(call.ctx.allowedKinds))
  /\ Len(n.label) > 0
  /\ \A i \in 1..Len(n.label) : SubSeq(n.label, i, i) \notin {"J", "E"}

\* C21: the language filter removes a candidate exactly when its coerced
\* kind is not proper-noun-exempt and its label is ASCII only, in every
\* vocabulary: the output nodes are the first 3 of the candidates the rule
\* does not remove.
C21_FilterRule ==
  Returned =>
    LET kept == SelectSeq(ret.resolved, LAMBDA n : ~RemovedByRule(n))
    IN ret.nodes = SubSeq(kept, 1, IF Len(kept) > 3 THEN 3 ELSE Len(kept))

\* The same for the vocabularies that match a built-in domain.
FilterRuleWhereBuiltIn ==
  (Returned /\ inferDomainFromAllowedKinds(call.ctx.allowedKinds) # "unknown") =>
    LET kept == SelectSeq(ret.resolved, LAMBDA n : ~RemovedByRule(n))
    IN ret.nodes = SubSeq(kept, 1, IF Len(kept) > 3 THEN 3 ELSE Len(kept))

\* The last entry of allowedKinds that is not "root".
LastNonRootKind(kinds) ==
  kinds[CHOOSE i \in 1..Len(kinds) :
          /\ kinds[i] # "root"
          /\ \A j \in (i + 1)..Len(kinds) : kinds[j] = "root"]

\* C22: every output node's kind is in allowedKinds: the payload kind when
\* that is in allowedKinds, and the last non-root kind of allowedKinds when
\* the payload kind is missing or not in allowedKinds.
C22_KindInVocabulary ==
  Returned =>
    \A i \in 1..Len(ret.nodes) :
      LET kind == PayloadNodes[ret.nodes[i].src].kind
          allowed == SeqToSet(call.ctx.allowedKinds)
      IN /\ ret.nodes[i].kind \in allowed
         /\ (~IsNullish(kind) /\ JSString(kind) \in allowed)
              => ret.nodes[i].kind = JSString(kind)
         /\ (IsNullish(kind) \/ JSString(kind) \notin allowed)
              => ret.nodes[i].kind = LastNonRootKind(call.ctx.allowedKinds)

\* The same for the vocabularies whose last entry is not "root".
KindInVocabularyWhereRootNotLast ==
  (Returned /\ call.ctx.allowedKinds[Len(call.ctx.allowedKinds)] # "root") =>
    \A i \in 1..Len(ret.nodes) :
      LET kind == PayloadNodes[ret.nodes[i].src].kind
          allowed == SeqToSet(call.ctx.allowedKinds)
      IN /\ ret.nodes[i].kind \in allowed
         /\ (~IsNullish(kind) /\ JSString(kind) \in allowed)
              => ret.nodes[i].kind = JSString(kind)
         /\ (IsNullish(kind) \/ JSString(kind) \notin allowed)
              => ret.nodes[i].kind = LastNonRootKind(call.ctx.allowedKinds)

\* A string of one character or more, all of them ASCII.
PurelyAscii(s) == Len(s) > 0 /\ \A i \in 1..Len(s) : SubSeq(s, i, i) \notin {"J", "E"}

\* The kind of the output node an output edge points to.
TargetKind(i) ==
  ret.nodes[CHOOSE n \in 1..Len(ret.nodes) : ret.nodes[n].id = ret.edges[i].target].kind

\* C23: an output edge that comes from a payload edge carries the default
\* relation label of its target node's kind when the payload label is ASCII
\* only, the payload label itself when that holds a non-ASCII character, and
\* the generic default when the payload has no label.
C23_ModelEdgeLabels ==
  Returned =>
    \A i \in ModelEdges :
      LET label == PayloadEdges[ret.edges[i].src].label IN
      /\ IsNullish(label) => ret.edges[i].label = GenericLabel
      /\ (label.t = "string" /\ PurelyAscii(label.v)) =>
           ret.edges[i].label =
             edgeLabelJa(inferDomainFromAllowedKinds(call.ctx.allowedKinds), TargetKind(i))
      /\ (label.t = "string" /\ Len(label.v) > 0 /\ ~PurelyAscii(label.v)) =>
           ret.edges[i].label = label.v

\* C23 witness: an ASCII label replaced by the label of the target's kind
\* (a brand), beside a label with a non-ASCII character that is kept.
C23_Witness ==
  /\ Returned
  /\ \E i \in ModelEdges :
       /\ PayloadEdges[ret.edges[i].src].label = Str("x")
       /\ TargetKind(i) = "brand"
       /\ ret.edges[i].label = "Jburando"
  /\ \E i \in ModelEdges :
       /\ PayloadEdges[ret.edges[i].src].label = Str("xE")
       /\ ret.edges[i].label = "xE"

\* C24: the final guard never fires: no output holds a forced edge, and an
\* output with a node has an edge that is no forced edge.
C24_GuardUnreachable ==
  Returned =>
    /\ \A i \in 1..Len(ret.edges) : ret.edges[i].origin # "forced"
    /\ Len(ret.nodes) > 0 => \E i \in 1..Len(ret.edges) : ret.edges[i].origin # "forced"

\* C24 witness: an output with nodes whose payload edges were all rejected,
\* so that every edge is a synthesized one.
C24_Witness ==
  /\ Returned
  /\ Len(ret.nodes) > 0
  /\ Len(PayloadEdges) > 0
  /\ ModelEdges = {}
  /\ \A i \in 1..Len(ret.edges) : ret.edges[i].origin = "auto"

(***************************************************************************)
(* Claims about the layout and the in-flight flag                          *)
(***************************************************************************)
realNodeIds(g) ==
  {g.nodes[i].id : i \in {j \in 1..Len(g.nodes) : g.nodes[j].pendingKey = ""}}

\* The child-id lists the fan is tried with for the focus f: every node
\* other than f alone, and every merged batch.
ChildLists(g, f) ==
  {<<a>> : a \in idSet(g.nodes) \ {f}} \cup {batches[h] : h \in DOMAIN batches}

\* The orders in which the ids of a list can be passed.
Reorderings(ids) ==
  LET n == Len(ids)
  IN {[i \in 1..n |-> ids[p[i]]] :
        p \in {q \in [1..n -> 1..n] : \A i, j \in 1..n : q[i] = q[j] => i = j}}

\* A step moves no node that is no placeholder (and removes none).
NoMoveStep ==
  \A id \in realNodeIds(cy) :
    id \in DOMAIN cy'.pos /\ cy'.pos[id] = cy.pos[id]

\* The fan of the running revision, called for a focus other than the root
\* and a list of children, moves no node the list does not name.
FanOutFrame ==
  \A f \in idSet(cy.nodes) \ {rootId} :
    \A ids \in ChildLists(cy, f) :
      \E after \in {layout(rev, cy, f, ids)} :
        \A id \in DOMAIN cy.pos \ SeqToSet(ids) : after[id] = cy.pos[id]

\* The merge and the layout of expand() run again for the merged batch of
\* the focus f: the positions afterwards (the merge adds nothing, every id
\* of the batch being in the graph).
rerun(f) == layout(rev, cy, f, batches[f])

RerunKeepsOthers(f) ==
  \E after \in {rerun(f)} :
    \A id \in DOMAIN cy.pos \ SeqToSet(batches[f]) : after[id] = cy.pos[id]

C9_OrderIndependent ==
  \A f \in DOMAIN batches \ {rootId} :
    \E first \in {layout(rev, cy, f, batches[f])} :
      \A ids \in Reorderings(batches[f]) :
        \E second \in {layout(rev, cy, f, ids)} :
          \A i \in 1..Len(ids) : second[ids[i]] = first[ids[i]]

\* The same for the revision that sorts the ids.
OrderIndependentWhereSorted == rev = "part_001" => C9_OrderIndependent

\* What a step does when it is a handler's call of expand() on a busy view,
\* and what a step that clears the flag does.
InFlightStep ==
  /\ (loading /\ lastEvent'.kind \in {"start", "tap"})
       => UNCHANGED <<cy, elements, loading, ops, now, fetchCount, batches>>
  /\ (loading /\ ~loading')
       => /\ fetchCount' = fetchCount
          /\ ops' = {}
          /\ \A i \in 1..Len(cy'.nodes) : cy'.nodes[i].pendingKey = ""
  /\ fetchCount' # fetchCount
       => /\ ~loading
          /\ fetchCount' = fetchCount + 1
          /\ lastEvent'.kind \in {"start", "tap"}
          /\ lastEvent'.outcome = "started"

\* C10: at most one expansion is between setting the flag and its cleanup;
\* a call of expand() on a busy view sends no request, inserts no
\* placeholder and changes no element; and the step that clears the flag
\* starts nothing (the call was dropped, not queued).
C10_SingleFlight ==
  /\ [](Cardinality(ops) <= 1 /\ (loading <=> ops # {}))
  /\ [][InFlightStep]_vars

\* A tap arrived while an expansion was in flight.
C10_Witness ==
  /\ loading
  /\ ops # {}
  /\ lastEvent.kind = "tap"
  /\ lastEvent.outcome = "busy"

expandedIds(g) ==
  {g.nodes[i].id : i \in {j \in 1..Len(g.nodes) : g.nodes[j].expanded}}

\* What a step does to the expanded flags, and what it does when it is a
\* handler's call of expand() for an expanded node.
ExpandedStep ==
  /\ expandedIds(cy) \subseteq expandedIds(cy')
  /\ (lastEvent'.kind \in {"start", "tap"} /\ lastEvent'.node \in expandedIds(cy))
       => UNCHANGED <<cy, elements, loading, ops, now, fetchCount, batches>>

\* C11: the expanded flag of a node, once set, stays set, and a later call
\* of expand() for that node returns before any request is sent and leaves
\* the elements, the positions, the flags and the in-flight flag as they are.
C11_ExpandedOnce == [][ExpandedStep]_vars

\* An idle view was tapped on an expanded node that is not the root.
C11_Witness ==
  /\ lastEvent.kind = "tap"
  /\ lastEvent.outcome = "expanded"
  /\ lastEvent.node # rootId
  /\ ~loading

\* The pendingKeys of the elements of the graph and of the elements state.
pendingKeysIn(g, els) ==
  ({g.nodes[i].pendingKey : i \in 1..Len(g.nodes)}
     \cup {g.edges[i].pendingKey : i \in 1..Len(g.edges)}
     \cup {els[i].pendingKey : i \in 1..Len(els)}) \ {""}

\* C12: while no expansion is in flight neither the graph nor the elements
\* state holds an element with a pendingKey; the placeholders present while
\* one is in flight are its own; and the step in which an expansion ends
\* (merged, not ok, or rejected) leaves no element carrying its key.
C12_NoOrphanPlaceholders ==
  /\ [](/\ ~loading => pendingKeysIn(cy, elements) = {}
        /\ pendingKeysIn(cy, elements) \subseteq {op.pendingKey : op \in ops})
  /\ [][\A op \in ops \ ops' : op.pendingKey \notin pendingKeysIn(cy', elements')]_vars

\* An expansion of a node other than the root, which had inserted its three
\* placeholders, has ended with a response that was not ok.
C12_Witness ==
  /\ rev = "part_000"
  /\ ~loading
  /\ lastEvent.kind = "response"
  /\ lastEvent.node = "a"
  /\ lastEvent.outcome = "notok"
  /\ fetchCount >= 2

\* What the step in which an expansion ends without a merge leaves behind.
FailedAttemptStep ==
  \A op \in ops \ ops' :
    lastEvent'.outcome # "ok" =>
      /\ (lastEvent'.outcome = "rejected" \/ lastEvent'.answer \in {"unreachable", "text"})
           => ~lastEvent'.sanitized
      /\ cy' = op.before.cy
      /\ elements' = op.before.elements
      /\ ~loading'
      /\ op.nodeId \notin expandedIds(cy')

\* C13: an expansion whose Generator call fails, or whose answer is no JSON,
\* ends without the sanitizer having run, with the graph (nodes, edges,
\* positions, flags) and the elements state as they were before the attempt
\* and the in-flight flag cleared; the focus is unexpanded, so the next call
\* of expand() for it sends a new request.
C13_FailedAttemptLeavesGraph ==
  /\ [][FailedAttemptStep]_vars
  /\ []((lastEvent.kind = "response" /\ lastEvent.outcome # "ok")
          => expandOutcome(lastEvent.node) = "started")

\* The expansion of a node other than the root, placeholders inserted, ended
\* with an answer of the Generator that was no JSON.
C13_Witness ==
  /\ rev = "part_000"
  /\ lastEvent.kind = "response"
  /\ lastEvent.node # rootId
  /\ lastEvent.outcome = "notok"
  /\ lastEvent.answer = "text"
  /\ Len(cy.nodes) >= 2

\* The ids of a sequence are pairwise distinct.
Distinct(ids) == \A i, j \in 1..Len(ids) : ids[i] = ids[j] => i = j

\* The request of every suspended call carries in existingElementIds the id
\* of every node and edge of the graph it was built from.
RequestCarriesAllIds ==
  \A op \in ops : elementIds(op.before.cy) \subseteq SeqToSet(op.existingElementIds)

\* The elements a successful expansion merges have ids distinct from one
\* another and from every id the graph held.
MergeStepDistinctIds ==
  \A op \in ops \ ops' :
    lastEvent'.outcome = "ok" =>
      /\ Distinct(lastEvent'.merged)
      /\ SeqToSet(lastEvent'.merged) \cap elementIds(op.before.cy) = {}

\* C14: every request carries in existingElementIds the id of every node and
\* of every edge of the graph, and the ids of the elements of the graph stay
\* pairwise distinct through every successful expansion (no merged element
\* has the id of another element).
C14_AllIdsSentAndDistinct ==
  /\ []RequestCarriesAllIds
  /\ [][MergeStepDistinctIds]_vars

\* The first half for the revision that sends existingElementIds.
AllIdsSentWherePlaceholders == rev = "part_000" => RequestCarriesAllIds

\* The second half for that revision.
DistinctIdsWherePlaceholders == [][rev = "part_000" => MergeStepDistinctIds]_vars

\* The elements a merged response brought into the graph.
NewIds == lastEvent.stages[3].ids \ lastEvent.stages[2].ids

MergedResponse == lastEvent.kind = "response" /\ lastEvent.outcome = "ok"

\* No element of the batch is in the graph while a placeholder is.
NoBatchBesidePlaceholders ==
  MergedResponse =>
    \A k \in 1..Len(lastEvent.stages) :
      NewIds \cap lastEvent.stages[k].ids # {} => lastEvent.stages[k].pending = {}

\* C25: in a merge of the revision with placeholders, the placeholders leave
\* before the batch enters, and the focus is marked expanded only after the
\* layout: whenever the focus carries the flag, every new node is at the
\* position the layout gives it.
C25_MutationOrder ==
  /\ NoBatchBesidePlaceholders
  /\ (MergedResponse /\ rev = "part_000") =>
       \A k \in 1..Len(lastEvent.stages) :
         lastEvent.node \in lastEvent.stages[k].expanded =>
           \A id \in NewIds \cap DOMAIN lastEvent.stages[5].pos :
             /\ id \in DOMAIN lastEvent.stages[k].pos
             /\ lastEvent.stages[k].pos[id] = lastEvent.stages[5].pos[id]

\* Ring placement of the running revision, on the graph g.
ringPlacement(g) ==
  IF rev = "part_000" THEN computeRingPositions(g) ELSE computeRingPositionsByDepth(g)

\* The nodes of g at the depth of node n, and the number of them whose id
\* comes before the id of n.
SameDepth(g, n) == {m \in SeqToSet(g.nodes) : m.depth = n.depth}
RankById(g, n) == Cardinality({m \in SameDepth(g, n) : localeCompare(m.id, n.id) < 0})

\* Every node of depth d > 0 sits at the slot of its id's rank on the circle
\* of radius ringGap * d around the root.
SlotsById(g, pos) ==
  \A n \in SeqToSet(g.nodes) :
    n.depth > 0 =>
      pos[n.id] = placeOnRing(pos[rootId], ringGap * n.depth, RankById(g, n),
                              Cardinality(SameDepth(g, n)))

\* C26: ring placement puts every node of depth d > 0 at the slot of its id's
\* rank among the nodes of depth d, on the circle of radius ringGap * d around
\* the root, and placing again changes nothing.
C26_RingSlotsById ==
  \E pos \in {ringPlacement(cy)} :
    /\ SlotsById(cy, pos)
    /\ ringPlacement([cy EXCEPT !.pos = pos]) = pos

\* The same for the revision that sorts by id.
RingSlotsByIdWhereSorted ==
  rev = "part_001" =>
    \E pos \in {ringPlacement(cy)} :
      /\ SlotsById(cy, pos)
      /\ ringPlacement([cy EXCEPT !.pos = pos]) = pos

\* Placing twice is placing once, in both revisions.
RingPlacementIdempotent ==
  \E pos \in {ringPlacement(cy)} : ringPlacement([cy EXCEPT !.pos = pos]) = pos

\* The nodes and the edges of a graph that are no placeholders, and the
\* entries of the elements state that are none.
RealNodes(g) ==
  {[id |-> g.nodes[i].id, kind |-> g.nodes[i].kind, depth |-> g.nodes[i].depth] :
     i \in {j \in 1..Len(g.nodes) : g.nodes[j].pendingKey = ""}}
RealEdges(g) ==
  {[id |-> g.edges[i].id, source |-> g.edges[i].source, target |-> g.edges[i].target] :
     i \in {j \in 1..Len(g.edges) : g.edges[j].pendingKey = ""}}
RealElements(els) ==
  {[id |-> els[i].id, group |-> els[i].group] :
     i \in {j \in 1..Len(els) : els[j].pendingKey = ""}}

\* A step removes no node and no edge that is no placeholder, and changes no
\* node's id, kind or depth.
GrowStep ==
  /\ RealNodes(cy) \subseteq RealNodes(cy')
  /\ RealEdges(cy) \subseteq RealEdges(cy')
  /\ RealElements(elements) \subseteq RealElements(elements')

\* The graph holds one node of depth 0, the root.
OneRoot ==
  /\ Cardinality({j \in 1..Len(cy.nodes) : cy.nodes[j].depth = 0}) = 1
  /\ \A j \in 1..Len(cy.nodes) : cy.nodes[j].depth = 0 => cy.nodes[j].id = rootId

\* C28: the graph grows monotonically: every step keeps the nodes and edges
\* that are no placeholders, with each node's id, kind and depth, and the
\* graph always holds exactly one node of depth 0, the root.
C28_MonotoneGrowth == []OneRoot /\ [][GrowStep]_vars

\* C28 witness: after two merged expansions the placeholders are gone and the
\* graph holds nodes of depth 1 and of depth 2.
C28_Witness ==
  /\ rev = "part_000"
  /\ MergedResponse
  /\ pendingKeysIn(cy, elements) = {}
  /\ \E n \in RealNodes(cy) : n.depth = 1
  /\ \E n \in RealNodes(cy) : n.depth = 2

\* The edges of the graph that enter the node id.
Inbound(id) == {j \in 1..Len(cy.edges) : cy.edges[j].target = id}

\* C29: every node that is neither the root nor a placeholder has exactly one
\* inbound edge, from the focus of the expansion that brought it, one level
\* above it; the root has none.
C29_OneInboundEdge ==
  /\ Inbound(rootId) = {}
  /\ \A i \in 1..Len(cy.nodes) :
       (cy.nodes[i].id # rootId /\ cy.nodes[i].pendingKey = "") =>
         /\ Cardinality(Inbound(cy.nodes[i].id)) = 1
         /\ \A j \in Inbound(cy.nodes[i].id) :
              /\ cy.edges[j].source \in DOMAIN batches
              /\ cy.nodes[i].id \in SeqToSet(batches[cy.edges[j].source])
              /\ cy.nodes[i].depth =
                   cy.nodes[IndexOfId(cy.nodes, cy.edges[j].source)].depth + 1

\* In the revision that sends existingElementIds: every node that is neither
\* the root nor a placeholder has an inbound edge.
InboundEdgeWherePlaceholders ==
  rev = "part_000" =>
    \A i \in 1..Len(cy.nodes) :
      (cy.nodes[i].id # rootId /\ cy.nodes[i].pendingKey = "") =>
        Inbound(cy.nodes[i].id) # {}

\* The nodes whose expansion merged a batch without nodes.
EmptyBatchFocuses == {f \in DOMAIN batches : batches[f] = <<>>}

\* A node that merged an empty batch is expanded and no edge leaves it.
ChildlessAndExpanded ==
  \A f \in EmptyBatchFocuses :
    /\ f \in expandedIds(cy)
    /\ \A j \in 1..Len(cy.edges) : cy.edges[j].source # f

\* A step that merges a response leaves the focus expanded, and a step that
\* sends a request sends it for a node that merged no response before.
MergeMarksStep ==
  /\ (lastEvent'.kind = "response" /\ lastEvent'.outcome = "ok")
       => lastEvent'.node \in expandedIds(cy')
  /\ \A op \in ops' \ ops : op.nodeId \notin DOMAIN batches
  /\ (fetchCount' # fetchCount) => ops' # ops

\* C30: a response that is ok marks the focus expanded, also when its batch
\* is empty; such a node never gets a child, and no later expand of it sends
\* a request.
C30_EmptyBatchExpands == []ChildlessAndExpanded /\ [][MergeMarksStep]_vars

\* C30 witness: the response for a node other than the root carried no node
\* because the language filter rejected the one candidate, and the node is
\* expanded.
C30_Witness ==
  /\ MergedResponse
  /\ lastEvent.node # rootId
  /\ lastEvent.candidates = 1
  /\ lastEvent.merged = <<>>
  /\ lastEvent.node \in EmptyBatchFocuses \cap expandedIds(cy)

\* Later: a tap on a node that merged an empty batch returns at once.
TapAfterEmptyBatch ==
  /\ lastEvent.node \in EmptyBatchFocuses \ {rootId}
  /\ lastEvent.kind = "tap"
  /\ lastEvent.outcome = "expanded"

(***************************************************************************)
(* handleExpand on its own: one request to the expand endpoint             *)
(*   call   the request body and what the Generator answers                *)
(*   ret    the response, with the identifiers handed to the sanitizer     *)
(***************************************************************************)
\* What an id-list property of a request body holds: nothing, null, an empty
\* array, the ids of a graph's nodes, the ids of its nodes and edges.
IdListFields ==
  {Missing, Field("null", <<>>), Arr(<<>>), Arr(<<"r">>), Arr(<<"r", "a">>),
   Arr(<<"r", "a", "r--a--auto">>), Arr(<<"r", "b">>)}

\* Request bodies: a focus node with or without an id, and the two lists.
RequestBodies ==
  {[focusNode |-> [id |-> f, depth |-> 0], existingElementIds |-> ee,
    existingNodeIds |-> nn] :
     f \in {"r", ""}, ee \in IdListFields, nn \in IdListFields}

InitHandle ==
  /\ \E body \in RequestBodies : \E answer \in GeneratorAnswers("r") :
       call = [body |-> body, answer |-> answer]
  /\ ret = [state |-> "none", status |-> 0, sanitized |-> FALSE, used |-> <<>>,
            nodes |-> <<>>, edges |-> <<>>]
  /\ InitView("part_000")

\* One call of handleExpand on the drawn request.
Handle ==
  /\ ret.state = "none"
  /\ \E response \in {handleExpand(call.body, call.answer)} :
       ret' = [state |-> "responded", status |-> response.status,
               sanitized |-> response.sanitized, used |-> response.used,
               nodes |-> response.payload.nodes, edges |-> response.payload.edges]
  /\ UNCHANGED call
  /\ UNCHANGED viewVars

NextHandle == Handle

SpecHandle == InitHandle /\ [][NextHandle]_vars

\* The request carries no usable existingElementIds: none, null or [].
OlderShape ==
  \/ call.body.existingElementIds.t # "array"
  \/ call.body.existingElementIds.items = <<>>

\* C18: when handleExpand runs the sanitizer, the identifiers it hands over
\* are the request's existingNodeIds if existingElementIds is absent or
\* empty (nothing if existingNodeIds is absent too), and otherwise the
\* request's existingElementIds whatever existingNodeIds holds; a candidate
\* id is renamed exactly when it is in that list.
C18_OlderRequestShape ==
  (ret.state = "responded" /\ ret.sanitized) =>
    /\ OlderShape /\ call.body.existingNodeIds.t = "array"
         => ret.used = call.body.existingNodeIds.items
    /\ OlderShape /\ call.body.existingNodeIds.t # "array" => ret.used = <<>>
    /\ ~OlderShape => ret.used = call.body.existingElementIds.items
    /\ \A i \in 1..Len(ret.nodes) :
         LET items == arrayOrRaise(rawProperty(call.answer.raw, "nodes")).items
             base(k) == Trim(JSString(items[ret.nodes[k].src].id))
         IN /\ base(i) \in SeqToSet(ret.used) => ret.nodes[i].id # base(i)
            /\ (/\ base(i) \notin SeqToSet(ret.used)
                /\ \A k \in 1..(i - 1) : base(k) # base(i))
                 => ret.nodes[i].id = base(i)

\* C18 witness: a request with existingNodeIds alone whose list holds the
\* id of a candidate, which is renamed.
C18_Witness ==
  /\ ret.state = "responded" /\ ret.sanitized
  /\ call.body.existingElementIds.t = "undefined"
  /\ call.body.existingNodeIds = Arr(<<"r", "a">>)
  /\ \E i \in 1..Len(ret.nodes) : ret.nodes[i].id = "a__1"

\* The other case: a request with both lists, the candidate's id in
\* existingNodeIds only, which keeps its id.
BothListsCase ==
  /\ ret.state = "responded" /\ ret.sanitized
  /\ call.body.existingElementIds = Arr(<<"r", "b">>)
  /\ call.body.existingNodeIds = Arr(<<"r", "a">>)
  /\ \E i \in 1..Len(ret.nodes) : ret.nodes[i].id = "a"

(***************************************************************************)
(* placeChildrenForward of part_001 on its own: one fan-out                *)
(*   call   the graph, the focus and the child ids                         *)
(*   ret    the positions afterwards                                       *)
(***************************************************************************)
\* The places on the forward line of the focus where another node may sit:
\* where a lone child lands after 0, 1, ... maxPushes pushes.
ObstacleSlots == 0..maxPushes

FanNode(id, depth) ==
  [id |-> id, kind |-> "note", depth |-> depth, expanded |-> FALSE, pendingKey |-> ""]

\* A graph with the root at the origin, the focus f on the first ring, the
\* children as cy.add leaves them (at the origin) and a node o<j> at every
\* place j of `slots`.
FanGraph(slots, childIds) ==
  LET obstacles == SelectSeq([j \in 1..(maxPushes + 1) |-> j - 1], LAMBDA j : j \in slots)
      nodes == <<[FanNode(rootId, 0) EXCEPT !.kind = rootKind, !.expanded = TRUE],
                 [FanNode("f", 1) EXCEPT !.expanded = TRUE]>>
                 \o [i \in 1..Len(obstacles) |-> FanNode("o" \o ToString(obstacles[i]), 2)]
                 \o [i \in 1..Len(childIds) |-> FanNode(childIds[i], 2)]
  IN [nodes |-> nodes,
      edges |-> <<[id |-> rootId \o "--f--auto", source |-> rootId, target |-> "f",
                   pendingKey |-> ""]>>,
      pos |-> [id \in idSet(nodes) |->
                 IF id = "f" THEN [x |-> ringGap, y |-> 0]
                 ELSE IF \E j \in slots : id = "o" \o ToString(j)
                 THEN [x |-> ringGap + forwardDist
                               + pushDist * (CHOOSE j \in slots : id = "o" \o ToString(j)),
                       y |-> 0]
                 ELSE Origin]]

InitFan ==
  /\ \E slots \in SUBSET ObstacleSlots :
     \E childIds \in {<<"c">>, <<"d", "c">>} :
       call = [g |-> FanGraph(slots, childIds), focusId |-> "f", childIds |-> childIds]
  /\ ret = [state |-> "none", pos |-> << >>]
  /\ InitView("part_001")

\* One call of placeChildrenForward on the drawn graph.
PlaceFan ==
  /\ ret.state = "none"
  /\ ret' = [state |-> "placed",
             pos |-> placeChildrenForwardSorted(call.g, call.focusId, call.childIds)]
  /\ UNCHANGED call
  /\ UNCHANGED viewVars

NextFan == PlaceFan

SpecFan == InitFan /\ [][NextFan]_vars

\* The children in the order of placement, the number of children and the
\* graph's positions at the moment child i is placed: the children before it
\* where they were put, every other node where it was.
FanOrder == sortIds(call.childIds)
PosAtMoment(i) ==
  [id \in DOMAIN call.g.pos |->
     IF \E h \in 1..(i - 1) : FanOrder[h] = id THEN ret.pos[id] ELSE call.g.pos[id]]

\* Child i after j pushes: forwardDist + |t| * stagger + 40 * j along the
\* forward direction (1, 0), t * sideGap across it, t = i - (count + 1) / 2.
AfterPushes(i, j) ==
  LET twoT == 2 * i - (Len(FanOrder) + 1)
      fp == call.g.pos[call.focusId]
  IN [x |-> fp.x + (400 + 28 * Abs(twoT)) \div 2 + 40 * j,
      y |-> fp.y + (70 * twoT) \div 2]

\* Every other node is 62 units or more away from the place p of child i.
FarEnough(i, p) ==
  \A id \in DOMAIN call.g.pos \ {FanOrder[i]} :
    LET q == PosAtMoment(i)[id] IN
    (q.x - p.x) * (q.x - p.x) + (q.y - p.y) * (q.y - p.y) >= 62 * 62

\* C27: every child ends where j pushes of 40 units along the forward
\* direction leave it, j at most 8, its lateral offset unchanged; for j < 8
\* that place passed the check (62 units or more to every other node at that
\* moment) and the places before it failed it; for j = 8 all 8 checks failed
\* and the place is taken unchecked.
C27_BoundedRepair ==
  ret.state = "placed" =>
    \A i \in 1..Len(FanOrder) :
      \E j \in 0..8 :
        /\ ret.pos[FanOrder[i]] = AfterPushes(i, j)
        /\ \A h \in 0..(j - 1) : h < 8 => ~FarEnough(i, AfterPushes(i, h))
        /\ j < 8 => FarEnough(i, AfterPushes(i, j))

\* C27 witness: a child accepted after 3 pushes or more.
C27_Witness ==
  /\ ret.state = "placed"
  /\ \E i \in 1..Len(FanOrder) : \E j \in 3..7 :
       /\ ret.pos[FanOrder[i]] = AfterPushes(i, j)
       /\ FarEnough(i, ret.pos[FanOrder[i]])

\* The other case: a child that exhausted the 8 checks and sits unchecked on
\* another node.
ExhaustedCase ==
  /\ ret.state = "placed"
  /\ \E i \in 1..Len(FanOrder) :
       /\ ret.pos[FanOrder[i]] = AfterPushes(i, 8)
       /\ ~FarEnough(i, ret.pos[FanOrder[i]])

====
